---- MODULE Spec2Model ----
(***************************************************************************)
(* Model of the LibrePCB board design rule check                           *)
(* (libs/librepcb/core/project/board/drc/boarddesignrulecheck.cpp).        *)
(*                                                                         *)
(* Lengths are integers (nanometres).  The board is laid out on one axis:  *)
(* a position is an integer, an area (ClipperLib::Paths) is a set of cells *)
(* of half a nanometre, cell k being the open interval (k/2, (k+1)/2).     *)
(* Two areas overlap iff they share a cell, so contact on a boundary is no *)
(* overlap.                                                                *)
(***************************************************************************)
EXTENDS Integers, Sequences, FiniteSets, TLC

VARIABLES
  board,            \* mBoard: the board the check works on (Board&)
  settings,         \* mSettings: BoardDesignRuleCheckSettings
  iterOrder,        \* order of the unordered containers (QSet hash, QMap of pointers)
  pc,               \* position of execute(): index into Steps(quick), 0 = not running
  quick,            \* the argument of the running execute(quick)
  runs,             \* number of execute() calls made on this instance
  mIgnorePlanes,    \* BoardDesignRuleCheck::mIgnorePlanes
  mProgressPercent, \* BoardDesignRuleCheck::mProgressPercent
  mProgressStatus,  \* BoardDesignRuleCheck::mProgressStatus
  mMessages,        \* BoardDesignRuleCheck::mMessages
  mCachedPaths,     \* BoardDesignRuleCheck::mCachedPaths
  observer,         \* signals received by the connected slots during the current run, in order
  called,           \* private methods entered by the current run, in order
  boardCalls,       \* calls of mutating Board methods made by the current run, in order
  exception,        \* an exception has left the last execute() instead of a return
  cancelRequested,  \* the host has asked for the running execute() to be cancelled
  mDevice,          \* one BI_Device of the board: what of it is added, and its last call
  mProject          \* the Project: its lists of boards and schematics, and its last call

vars == <<board, settings, iterOrder, pc, quick, runs, mIgnorePlanes,
          mProgressPercent, mProgressStatus, mMessages, mCachedPaths,
          observer, called, boardCalls, exception, cancelRequested, mDevice,
          mProject>>

\* what lives outside the check object: the host's view of the current run,
\* the device and the project
hostVars == <<exception, cancelRequested, mDevice, mProject>>

-----------------------------------------------------------------------------
(* Bounds of the model *)

\* number of execute() calls on one BoardDesignRuleCheck instance
MaxRuns == 2

\* items of the copper/copper check drawn in InitCC
MaxItems == 3

\* largest grid position of an item of InitCC
MaxPos == 1

\* largest min_copper_copper_clearance drawn in InitCC
MaxClearance == 5

-----------------------------------------------------------------------------
(* Helpers *)

Min(a, b) == IF a <= b THEN a ELSE b

Max(a, b) == IF a >= b THEN a ELSE b

Abs(a) == IF a >= 0 THEN a ELSE -a

\* C++ integer division (Length::operator/ on qint64) truncates toward zero
TruncDiv(a, b) == IF a >= 0 THEN a \div b ELSE -((-a) \div b)

Range(s) == {s[i] : i \in 1..Len(s)}

RECURSIVE Concat(_)
\* concatenation of a sequence of sequences
Concat(ss) == IF ss = <<>> THEN <<>> ELSE Head(ss) \o Concat(Tail(ss))

\* the sequence <<f(s[1]), ..., f(s[n])>> flattened, f giving a sequence
FlatMap(f(_), s) == Concat([i \in 1..Len(s) |-> f(s[i])])

Reverse(s) == [i \in 1..Len(s) |-> s[Len(s) + 1 - i]]

\* NetSignal* nullptr
NoNet == "none"

\* QString() : the empty layer name of a through-hole item
NoLayer == ""

-----------------------------------------------------------------------------
(* Geometry kernel and polygon algebra (Path, ClipperHelpers) *)

\* the cells between the half-nanometre coordinates lo and hi
Span(lo, hi) == lo..(hi - 1)

\* Path::circle(d).translated(c): disc of diameter d centred at c
Disc(c, d) == Span(2 * c - d, 2 * c + d)

\* Path::obround(p1, p2, w) and Path::toOutlineStrokes(w) of the path p1 -> p2
Obround(p1, p2, w) == Span(2 * Min(p1, p2) - w, 2 * Max(p1, p2) + w)

\* filled area of the closed path spanning p1 .. p2
Filled(p1, p2) == Span(2 * Min(p1, p2), 2 * Max(p1, p2))

\* ClipperHelpers::offset(paths, offset, tolerance) with offset >= 0
Grow(S, d) ==
  IF S = {} THEN {}
  ELSE LET lo == CHOOSE k \in S : \A j \in S : k <= j
           hi == CHOOSE k \in S : \A j \in S : k >= j
       IN {k \in (lo - 2 * d)..(hi + 2 * d) : \E j \in S : Abs(k - j) <= 2 * d}

\* ClipperHelpers::intersect(a, b) flattened
Intersect(A, B) == A \cap B

\* ClipperHelpers::unite(a, b)
Unite(A, B) == A \cup B

\* ClipperHelpers::subtractToTree(a, b) flattened
Subtract(A, B) == A \ B

\* ClipperHelpers::convert(paths): the outlines <<lo, hi>> of an area
Convert(S) ==
  {<<lo, hi + 1>> : <<lo, hi>> \in
     {p \in S \X S : /\ p[1] <= p[2]
                     /\ \A k \in p[1]..p[2] : k \in S
                     /\ (p[1] - 1) \notin S
                     /\ (p[2] + 1) \notin S}}

\* outline <<lo, hi>> of the path p1 -> p2 stroked at width w (a highlight)
StrokeOutline(p1, p2, w) == {<<2 * Min(p1, p2) - w, 2 * Max(p1, p2) + w>>}

-----------------------------------------------------------------------------
(* Board model: layers *)

\* BoardLayerStack::getAllLayers(), in order
AllLayers ==
  << [name |-> "top_cu",        copper |-> TRUE,  enabled |-> TRUE],
     [name |-> "in1_cu",        copper |-> TRUE,  enabled |-> FALSE],
     [name |-> "bot_cu",        copper |-> TRUE,  enabled |-> TRUE],
     [name |-> "brd_outlines",  copper |-> FALSE, enabled |-> TRUE],
     [name |-> "top_courtyard", copper |-> FALSE, enabled |-> TRUE],
     [name |-> "bot_courtyard", copper |-> FALSE, enabled |-> TRUE],
     [name |-> "top_names",     copper |-> FALSE, enabled |-> TRUE] >>

\* layer->isCopperLayer() && layer->isEnabled()
IsEnabledCopper(l) == l.copper /\ l.enabled

\* getLayerStack().getLayer(name) != nullptr && isCopperLayer() && isEnabled()
IsEnabledCopperName(name) ==
  \E i \in 1..Len(AllLayers) : AllLayers[i].name = name /\ IsEnabledCopper(AllLayers[i])

\* names of the enabled copper layers in getAllLayers() order
CopperLayerSeq ==
  LET ls == SelectSeq(AllLayers, IsEnabledCopper)
  IN [i \in 1..Len(ls) |-> ls[i].name]

\* Transform::map(GraphicsLayerName): top <-> bottom for a mirrored device
MirrorLayer(name) ==
  CASE name = "top_cu" -> "bot_cu"
    [] name = "bot_cu" -> "top_cu"
    [] name = "top_courtyard" -> "bot_courtyard"
    [] name = "bot_courtyard" -> "top_courtyard"
    [] OTHER -> name

\* Transform(device).map(layer)
MapLayer(dev, name) == IF dev.mirrored THEN MirrorLayer(name) ELSE name

\* Transform(device).map(point)
MapPos(dev, p) == IF dev.mirrored THEN dev.pos - p ELSE dev.pos + p

-----------------------------------------------------------------------------
(* Path generator (BoardClipperPathGenerator) *)

\* addVia(via, offset): disc of the via size, the radius inflated by offset
ViaArea(via, offset) == Disc(via.pos, via.size + 2 * offset)

\* addNetLine(netLine, offset): obround of the line, the half-width inflated
NetLineArea(line, offset) == Obround(line.p1, line.p2, line.width + 2 * offset)

\* addPlane(plane): the fragments the plane currently holds
PlaneArea(plane) == plane.fragments

\* addPolygon(polygon): filled area of a board polygon
PolygonArea(polygon) == Filled(polygon.p1, polygon.p2)

\* addPolygon(polygon, transform): filled area of a footprint polygon
DevPolygonArea(dev, polygon) ==
  Filled(MapPos(dev, polygon.p1), MapPos(dev, polygon.p2))

\* addStrokeText(text, offset): the strokes of the text
StrokeTextArea(text, offset) ==
  Obround(text.p1, text.p2, text.strokeWidth + 2 * offset)

\* BI_FootprintPad::isOnLayer(layer)
PadIsOnLayer(dev, pad, layer) ==
  IF pad.tht THEN \E i \in 1..Len(AllLayers) :
                    AllLayers[i].name = layer /\ AllLayers[i].copper
  ELSE layer = MapLayer(dev, "top_cu")

\* addPad(pad, transform, layer, offset)
PadArea(dev, pad, layer, offset) ==
  IF PadIsOnLayer(dev, pad, layer)
  THEN Disc(MapPos(dev, pad.pos), pad.size + 2 * offset)
  ELSE {}

\* addCircle(circle, transform, offset): filled footprint circle
DevCircleArea(dev, circle, offset) ==
  Disc(MapPos(dev, circle.center), circle.diameter + 2 * offset)

\* the width addHole(hole, transform, offset) strokes the hole path at
HoleStrokeWidth(diameter, offset) == diameter + 2 * offset

\* addHole(hole, transform, offset): the hole path stroked at diameter + 2 * offset
HoleArea(p1, p2, diameter, offset) ==
  IF HoleStrokeWidth(diameter, offset) <= 0 THEN {}
  ELSE Obround(p1, p2, HoleStrokeWidth(diameter, offset))

\* union of the areas of a sequence of areas
UnionAll(areas) == UNION Range(areas)

\* addCopper(layerName, netsignals, ignorePlanes): all copper on one layer;
\* an empty set of net signals selects every net and the objects without net
CopperArea(b, layer, nets, ignorePlanes) ==
  LET sel(n) == nets = {} \/ n \in nets
      segArea(seg) ==
        IF sel(seg.netSignal)
        THEN UnionAll([i \in 1..Len(seg.vias) |-> ViaArea(seg.vias[i], 0)])
             \cup UnionAll([i \in 1..Len(seg.netLines) |->
                    IF seg.netLines[i].layer = layer
                    THEN NetLineArea(seg.netLines[i], 0) ELSE {}])
        ELSE {}
      planeArea(pl) ==
        IF (~ignorePlanes) /\ pl.layer = layer /\ sel(pl.netSignal)
        THEN PlaneArea(pl) ELSE {}
      polyArea(po) ==
        IF nets = {} /\ po.layer = layer THEN PolygonArea(po) ELSE {}
      textArea(t) ==
        IF nets = {} /\ t.layer = layer THEN StrokeTextArea(t, 0) ELSE {}
      devArea(dev) ==
        UnionAll([i \in 1..Len(dev.pads) |->
          IF sel(dev.pads[i].netSignal)
          THEN PadArea(dev, dev.pads[i], layer, 0) ELSE {}])
        \cup UnionAll([i \in 1..Len(dev.polygons) |->
          IF nets = {} /\ MapLayer(dev, dev.polygons[i].layer) = layer
          THEN DevPolygonArea(dev, dev.polygons[i]) ELSE {}])
        \cup UnionAll([i \in 1..Len(dev.circles) |->
          IF nets = {} /\ MapLayer(dev, dev.circles[i].layer) = layer
          THEN DevCircleArea(dev, dev.circles[i], 0) ELSE {}])
        \cup UnionAll([i \in 1..Len(dev.strokeTexts) |->
          IF nets = {} /\ dev.strokeTexts[i].layer = layer
          THEN StrokeTextArea(dev.strokeTexts[i], 0) ELSE {}])
  IN UnionAll([i \in 1..Len(b.netSegments) |-> segArea(b.netSegments[i])])
     \cup UnionAll([i \in 1..Len(b.planes) |-> planeArea(b.planes[i])])
     \cup UnionAll([i \in 1..Len(b.polygons) |-> polyArea(b.polygons[i])])
     \cup UnionAll([i \in 1..Len(b.strokeTexts) |-> textArea(b.strokeTexts[i])])
     \cup UnionAll([i \in 1..Len(b.devices) |-> devArea(b.devices[i])])

-----------------------------------------------------------------------------
(* Board operations that change the board *)

\* Board::rebuildAllPlanes(): every plane recomputes its fragments
RebuildAllPlanes(b) ==
  [b EXCEPT !.planes = [i \in 1..Len(b.planes) |->
                          [b.planes[i] EXCEPT !.fragments = b.planes[i].fill]]]

\* Board::forceAirWiresRebuild(): the air wires are recomputed
ForceAirWiresRebuild(b) == [b EXCEPT !.airWires = b.airWiresDue]

-----------------------------------------------------------------------------
(* Messages and the signals of the check *)

\* a rule check message: its kind, the objects and layers its constructor
\* is given, and the highlighted locations
Msg(kind, objs, layers, locations) ==
  [kind |-> kind, objs |-> objs, layers |-> layers, locations |-> locations]

NoMsg == Msg("", <<>>, <<>>, {})

\* a signal as a connected slot receives it
Signal(type, percent, text, msg) ==
  [type |-> type, percent |-> percent, text |-> text, msg |-> msg]

\* emitProgress(percent)
EmitProgress(d, percent) ==
  [d EXCEPT !.percent = percent,
            !.observer = Append(@, Signal("progressPercent", percent, "", NoMsg))]

\* emitStatus(status): the status signal, then qApp->processEvents()
EmitStatus(d, status) ==
  [d EXCEPT !.status = Append(@, status),
            !.observer = Append(Append(@, Signal("progressStatus", -1, status, NoMsg)),
                                Signal("processEvents", -1, "", NoMsg))]

\* emitMessage(msg) with the signal delivered only when the run finishes
EmitMessageBuffered(d, msg) == [d EXCEPT !.messages = Append(@, msg)]

\* emitMessage(msg) that lets the host process its events as emitStatus does
EmitMessagePumping(d, msg) ==
  [d EXCEPT !.messages = Append(@, msg),
            !.observer = Append(Append(@, Signal("progressMessage", -1, "", msg)),
                                Signal("processEvents", -1, "", NoMsg))]

\* emitMessage(msg)
EmitMessage(d, msg) ==
  [d EXCEPT !.messages = Append(@, msg),
            !.observer = Append(@, Signal("progressMessage", -1, "", msg))]

RECURSIVE EmitMessages(_, _)
\* emitMessage() for each message of a loop, in order
EmitMessages(d, msgs) ==
  IF msgs = <<>> THEN d
  ELSE EmitMessages(EmitMessage(d, Head(msgs)), Tail(msgs))

\* maxArcTolerance()
MaxArcTolerance(s) == s.maxArcTolerance

\* iteration order of a QSet<QString> of the enabled copper layers
HashedLayerSeq(order) ==
  IF order = "fwd" THEN CopperLayerSeq ELSE Reverse(CopperLayerSeq)

\* iteration order of a QMap keyed by const BI_Device*
AddressOrderedDevices(b, order) ==
  IF order = "fwd" THEN b.devices ELSE Reverse(b.devices)

-----------------------------------------------------------------------------
(* checkMinimumCopperWidth *)

\* the messages of checkMinimumCopperWidth with a width equal to the
\* minimum reported as well
MinimumCopperWidthMsgsInclusive(b, s) ==
  LET minWidth == s.minCopperWidth
      textMsg(t) ==
        IF IsEnabledCopperName(t.layer) /\ t.strokeWidth <= minWidth
        THEN <<Msg("MinimumWidthViolation", <<<<t.id>>>>, <<>>,
                   StrokeOutline(t.p1, t.p2, Max(t.strokeWidth, 50000)))>>
        ELSE <<>>
      planeMsg(pl) ==
        IF IsEnabledCopperName(pl.layer) /\ pl.minWidth <= minWidth
        THEN <<Msg("MinimumWidthViolation", <<<<pl.id>>>>, <<>>,
                   StrokeOutline(pl.p1, pl.p2, 200000))>>
        ELSE <<>>
      devMsgs(dev) == FlatMap(textMsg, dev.strokeTexts)
      lineMsg(l) ==
        IF IsEnabledCopperName(l.layer) /\ l.width <= minWidth
        THEN <<Msg("MinimumWidthViolation", <<<<l.id>>>>, <<>>,
                   StrokeOutline(l.p1, l.p2, l.width))>>
        ELSE <<>>
      segMsgs(seg) == FlatMap(lineMsg, seg.netLines)
  IN FlatMap(textMsg, b.strokeTexts) \o FlatMap(planeMsg, b.planes)
     \o FlatMap(devMsgs, b.devices) \o FlatMap(segMsgs, b.netSegments)

\* the messages of checkMinimumCopperWidth, in emission order
MinimumCopperWidthMsgs(b, s) ==
  LET minWidth == s.minCopperWidth
      textMsg(t) ==
        IF IsEnabledCopperName(t.layer) /\ t.strokeWidth < minWidth
        THEN <<Msg("MinimumWidthViolation", <<<<t.id>>>>, <<>>,
                   StrokeOutline(t.p1, t.p2, Max(t.strokeWidth, 50000)))>>
        ELSE <<>>
      planeMsg(pl) ==
        IF IsEnabledCopperName(pl.layer) /\ pl.minWidth < minWidth
        THEN <<Msg("MinimumWidthViolation", <<<<pl.id>>>>, <<>>,
                   StrokeOutline(pl.p1, pl.p2, 200000))>>
        ELSE <<>>
      devMsgs(dev) == FlatMap(textMsg, dev.strokeTexts)
      lineMsg(l) ==
        IF IsEnabledCopperName(l.layer) /\ l.width < minWidth
        THEN <<Msg("MinimumWidthViolation", <<<<l.id>>>>, <<>>,
                   StrokeOutline(l.p1, l.p2, l.width))>>
        ELSE <<>>
      segMsgs(seg) == FlatMap(lineMsg, seg.netLines)
  IN FlatMap(textMsg, b.strokeTexts) \o FlatMap(planeMsg, b.planes)
     \o FlatMap(devMsgs, b.devices) \o FlatMap(segMsgs, b.netSegments)

checkMinimumCopperWidth(d, s, progressEnd) ==
  IF s.minCopperWidth = 0 THEN d
  ELSE EmitProgress(
         EmitMessages(EmitStatus(d, "Check minimum copper width..."),
                      MinimumCopperWidthMsgs(d.board, s)),
         progressEnd)

-----------------------------------------------------------------------------
(* checkCopperCopperClearances *)

\* offset with a negative value made positive instead of clipped to zero
CopperOffsetAbs(clearance, tolerance) ==
  Abs(TruncDiv(clearance - tolerance, 2) - 1)

\* offset without the clipping to zero
CopperOffsetUnclamped(clearance, tolerance) ==
  TruncDiv(clearance - tolerance, 2) - 1

\* offset applied to each object
CopperOffset(clearance, tolerance) ==
  Max(TruncDiv(clearance - tolerance, 2) - 1, 0)

\* struct Item
Item(obj, layer, netSignal, areas) ==
  [obj |-> obj, layer |-> layer, netSignal |-> netSignal, areas |-> areas]

\* the items of the planes
CopperPlaneItems(b, offset, ignorePlanes) ==
  IF ignorePlanes THEN <<>>
  ELSE FlatMap(LAMBDA pl :
         IF IsEnabledCopperName(pl.layer)
         THEN <<Item(<<pl.id>>, pl.layer, pl.netSignal, Grow(PlaneArea(pl), offset))>>
         ELSE <<>>, b.planes)

\* QVector<Item> items: the area of each copper object, in append order
CopperItems(b, offset, ignorePlanes, order) ==
  LET segItems(seg) ==
        FlatMap(LAMBDA via :
          <<Item(<<via.id>>, NoLayer, seg.netSignal, ViaArea(via, offset))>>,
          seg.vias)
        \o FlatMap(LAMBDA l :
          IF IsEnabledCopperName(l.layer)
          THEN <<Item(<<l.id>>, l.layer, seg.netSignal, NetLineArea(l, offset))>>
          ELSE <<>>, seg.netLines)
      polyItem(po) ==
        IF IsEnabledCopperName(po.layer)
        THEN <<Item(<<po.id>>, po.layer, NoNet, Grow(PolygonArea(po), offset))>>
        ELSE <<>>
      textItem(t) ==
        IF IsEnabledCopperName(t.layer)
        THEN <<Item(<<t.id>>, t.layer, NoNet, StrokeTextArea(t, offset))>>
        ELSE <<>>
      devItems(dev) ==
        FlatMap(LAMBDA pad :
          FlatMap(LAMBDA layer :
            IF PadIsOnLayer(dev, pad, layer)
            THEN <<Item(<<pad.id>>, layer, pad.netSignal,
                        PadArea(dev, pad, layer, offset))>>
            ELSE <<>>, HashedLayerSeq(order)), dev.pads)
        \o FlatMap(LAMBDA po :
          IF IsEnabledCopperName(po.layer)
          THEN <<Item(<<dev.id, po.id>>, po.layer, NoNet,
                      Grow(DevPolygonArea(dev, po), offset))>>
          ELSE <<>>, dev.polygons)
        \o FlatMap(LAMBDA ci :
          IF IsEnabledCopperName(ci.layer)
          THEN <<Item(<<dev.id, ci.id>>, ci.layer, NoNet,
                      DevCircleArea(dev, ci, offset))>>
          ELSE <<>>, dev.circles)
        \o FlatMap(textItem, dev.strokeTexts)
  IN FlatMap(segItems, b.netSegments)
     \o CopperPlaneItems(b, offset, ignorePlanes)
     \o FlatMap(polyItem, b.polygons)
     \o FlatMap(textItem, b.strokeTexts)
     \o FlatMap(devItems, b.devices)

\* the test of a pair with the layer of the second item not looked at
PairIsTestedFirstLayerOnly(it1, it2) ==
  /\ (it1.netSignal # it2.netSignal \/ it1.netSignal = NoNet \/ it2.netSignal = NoNet)
  /\ (it1.layer = NoLayer \/ it1.layer = it2.layer)

\* the test of a pair with the comparison of the net signals inverted
PairIsTestedSameNet(it1, it2) ==
  /\ (it1.netSignal = it2.netSignal \/ it1.netSignal = NoNet \/ it2.netSignal = NoNet)
  /\ (it1.layer = NoLayer \/ it2.layer = NoLayer \/ it1.layer = it2.layer)

\* whether the intersection of a pair of items is computed
PairIsTested(it1, it2) ==
  /\ (it1.netSignal # it2.netSignal \/ it1.netSignal = NoNet \/ it2.netSignal = NoNet)
  /\ (it1.layer = NoLayer \/ it2.layer = NoLayer \/ it1.layer = it2.layer)

\* the message of one pair of items, if any
PairMsgs(it1, it2) ==
  IF PairIsTested(it1, it2) /\ Intersect(it1.areas, it2.areas) # {}
  THEN <<Msg("CopperCopperClearanceViolation", <<it1.obj, it2.obj>>,
             <<it1.layer, it2.layer>>, Convert(Intersect(it1.areas, it2.areas)))>>
  ELSE <<>>

\* the loops with the inner one starting at the item after the next
IntersectionMsgsSkipping(items) ==
  Concat([i \in 1..(Len(items) - 1) |->
    Concat([k \in 1..Max(Len(items) - i - 1, 0) |-> PairMsgs(items[i], items[i + 1 + k])])])

\* "Now check for intersections": it1 over all items but the last, it2 after it1
IntersectionMsgs(items) ==
  Concat([i \in 1..(Len(items) - 1) |->
    Concat([k \in 1..(Len(items) - i) |-> PairMsgs(items[i], items[i + k])])])

\* the messages of checkCopperCopperClearances for a clearance > 0
CopperCopperMsgs(b, clearance, tolerance, ignorePlanes, order) ==
  IntersectionMsgs(
    CopperItems(b, CopperOffset(clearance, tolerance), ignorePlanes, order))

checkCopperCopperClearances(d, s, ignorePlanes, order, progressEnd) ==
  IF s.minCopperCopperClearance = 0 THEN d
  ELSE EmitProgress(
         EmitMessages(EmitStatus(d, "Check copper clearances..."),
                      CopperCopperMsgs(d.board, s.minCopperCopperClearance,
                                       MaxArcTolerance(s), ignorePlanes, order)),
         progressEnd)

-----------------------------------------------------------------------------
(* checkCopperBoardClearances *)

\* stroke width of the restricted area around the board outline
ClearanceWidth(clearance, tolerance) ==
  Max(clearance + clearance - tolerance - 1, 1)

\* restricted area around the board outline
RestrictedArea(b, clearance, tolerance) ==
  LET w == ClearanceWidth(clearance, tolerance)
  IN UnionAll([i \in 1..Len(b.polygons) |->
       IF b.polygons[i].layer = "brd_outlines"
       THEN Obround(b.polygons[i].p1, b.polygons[i].p2, w) ELSE {}])
     \cup UnionAll([i \in 1..Len(b.devices) |->
       UnionAll([k \in 1..Len(b.devices[i].polygons) |->
         IF b.devices[i].polygons[k].layer = "brd_outlines"
         THEN Obround(MapPos(b.devices[i], b.devices[i].polygons[k].p1),
                      MapPos(b.devices[i], b.devices[i].polygons[k].p2), w)
         ELSE {}])])

\* the messages of checkCopperBoardClearances, in emission order
CopperBoardMsgs(b, clearance, tolerance, ignorePlanes) ==
  LET restricted == RestrictedArea(b, clearance, tolerance)
      test(objs, paths) ==
        IF Intersect(restricted, paths) # {}
        THEN <<Msg("CopperBoardClearanceViolation", objs, <<>>,
                   Convert(Intersect(restricted, paths)))>>
        ELSE <<>>
      segMsgs(seg) ==
        FlatMap(LAMBDA via : test(<<<<via.id>>>>, ViaArea(via, 0)), seg.vias)
        \o FlatMap(LAMBDA l : test(<<<<l.id>>>>, NetLineArea(l, 0)), seg.netLines)
      planeMsgs ==
        IF ignorePlanes THEN <<>>
        ELSE FlatMap(LAMBDA pl : test(<<<<pl.id>>>>, PlaneArea(pl)), b.planes)
      polyMsgs(po) ==
        IF IsEnabledCopperName(po.layer)
        THEN test(<<<<po.id>>>>, PolygonArea(po)) ELSE <<>>
      textMsgs(t) ==
        IF IsEnabledCopperName(t.layer)
        THEN test(<<<<t.id>>>>, StrokeTextArea(t, 0)) ELSE <<>>
      devMsgs(dev) ==
        FlatMap(LAMBDA pad :
          FlatMap(LAMBDA layer :
            IF IsEnabledCopper(layer) /\ PadIsOnLayer(dev, pad, layer.name)
            THEN test(<<<<pad.id>>>>, PadArea(dev, pad, layer.name, 0))
            ELSE <<>>, AllLayers), dev.pads)
        \o FlatMap(LAMBDA po :
          IF IsEnabledCopperName(po.layer)
          THEN test(<<<<dev.id, po.id>>>>, DevPolygonArea(dev, po)) ELSE <<>>,
          dev.polygons)
        \o FlatMap(LAMBDA ci :
          IF IsEnabledCopperName(ci.layer)
          THEN test(<<<<dev.id, ci.id>>>>, DevCircleArea(dev, ci, 0)) ELSE <<>>,
          dev.circles)
        \o FlatMap(LAMBDA t :
          IF IsEnabledCopperName(t.layer)
          THEN test(<<<<dev.id, t.id>>>>, StrokeTextArea(t, 0)) ELSE <<>>,
          dev.strokeTexts)
  IN FlatMap(segMsgs, b.netSegments) \o planeMsgs
     \o FlatMap(polyMsgs, b.polygons) \o FlatMap(textMsgs, b.strokeTexts)
     \o FlatMap(devMsgs, b.devices)

checkCopperBoardClearances(d, s, ignorePlanes, progressEnd) ==
  IF s.minCopperBoardClearance = 0 THEN d
  ELSE EmitProgress(
         EmitMessages(EmitStatus(d, "Check board clearances..."),
                      CopperBoardMsgs(d.board, s.minCopperBoardClearance,
                                      MaxArcTolerance(s), ignorePlanes)),
         progressEnd)

-----------------------------------------------------------------------------
(* getCopperPaths and the checks that use the cached copper areas *)

\* key of mCachedPaths: qMakePair(&layer, netsignals)
CacheKey(layer, nets) == <<layer, nets>>

\* mCachedPaths after a getCopperPaths that takes the planes when
\* mIgnorePlanes is set and leaves them out when it is not
CacheAfterGetInverted(b, cache, layer, nets, ignorePlanes) ==
  IF CacheKey(layer, nets) \in DOMAIN cache THEN cache
  ELSE [k \in DOMAIN cache \cup {CacheKey(layer, nets)} |->
          IF k \in DOMAIN cache THEN cache[k]
          ELSE CopperArea(b, layer, nets, ~ignorePlanes)]

\* mCachedPaths after getCopperPaths(layer, netsignals)
CacheAfterGet(b, cache, layer, nets, ignorePlanes) ==
  IF CacheKey(layer, nets) \in DOMAIN cache THEN cache
  ELSE [k \in DOMAIN cache \cup {CacheKey(layer, nets)} |->
          IF k \in DOMAIN cache THEN cache[k]
          ELSE CopperArea(b, layer, nets, ignorePlanes)]

\* the area getCopperPaths(layer, netsignals) returns
GetCopperPaths(b, cache, layer, nets, ignorePlanes) ==
  CacheAfterGet(b, cache, layer, nets, ignorePlanes)[CacheKey(layer, nets)]

RECURSIVE CacheAfterGetAll(_, _, _, _)
\* mCachedPaths after getCopperPaths(l, {}) for each of the layers, in order
CacheAfterGetAll(b, cache, layers, ignorePlanes) ==
  IF layers = <<>> THEN cache
  ELSE CacheAfterGetAll(b, CacheAfterGet(b, cache, Head(layers), {}, ignorePlanes),
                        Tail(layers), ignorePlanes)

\* the areas where copper is available on any layer
AnyLayerCopper(b, cache, ignorePlanes) ==
  LET c == CacheAfterGetAll(b, cache, CopperLayerSeq, ignorePlanes)
  IN UNION {c[CacheKey(CopperLayerSeq[i], {})] : i \in 1..Len(CopperLayerSeq)}

\* the areas where copper is available on all layers
AllLayerCopper(b, cache, ignorePlanes) ==
  LET c == CacheAfterGetAll(b, cache, CopperLayerSeq, ignorePlanes)
  IN IF CopperLayerSeq = <<>> THEN {}
     ELSE {k \in c[CacheKey(CopperLayerSeq[1], {})] :
             \A i \in 1..Len(CopperLayerSeq) : k \in c[CacheKey(CopperLayerSeq[i], {})]}

\* the offset checkCopperHoleClearances hands to addHole
HoleOffset(clearance, tolerance) == clearance - tolerance - 1

\* the messages of checkCopperHoleClearances, in emission order
CopperHoleMsgs(b, cache, clearance, tolerance, ignorePlanes) ==
  LET copperAreas == AnyLayerCopper(b, cache, ignorePlanes)
      offset == HoleOffset(clearance, tolerance)
      test(objs, p1, p2, diameter) ==
        LET hit == Intersect(copperAreas, HoleArea(p1, p2, diameter, offset))
        IN IF hit # {}
           THEN <<Msg("CopperHoleClearanceViolation", objs, <<>>, Convert(hit))>>
           ELSE <<>>
  IN FlatMap(LAMBDA h : test(<<<<h.id>>>>, h.p1, h.p2, h.diameter), b.holes)
     \o FlatMap(LAMBDA dev :
          FlatMap(LAMBDA h : test(<<<<dev.id, h.id>>>>, MapPos(dev, h.p1),
                                  MapPos(dev, h.p2), h.diameter), dev.holes),
          b.devices)

checkCopperHoleClearances(d, s, ignorePlanes, progressEnd) ==
  IF s.minCopperNpthClearance = 0 THEN d
  ELSE LET d1 == EmitStatus(d, "Check hole clearances...")
           d2 == [d1 EXCEPT !.cache = CacheAfterGetAll(d.board, d.cache,
                                                       CopperLayerSeq, ignorePlanes)]
       IN EmitProgress(
            EmitMessages(d2, CopperHoleMsgs(d.board, d.cache, s.minCopperNpthClearance,
                                            MaxArcTolerance(s), ignorePlanes)),
            progressEnd)

\* absolute position of a point given relative to a pad: Transform(pad).map(p)
PadMapPos(dev, pad, p) == MapPos(dev, pad.pos + p)

\* the messages of checkMinimumPthAnnularRing, in emission order
AnnularRingMsgs(b, cache, annularWidth, ignorePlanes) ==
  LET tht == AllLayerCopper(b, cache, ignorePlanes)
      test(objs, areas) ==
        IF Subtract(areas, tht) # {}
        THEN <<Msg("MinimumAnnularRingViolation", objs, <<>>,
                   Convert(Subtract(areas, tht)))>>
        ELSE <<>>
      viaMsgs(via) ==
        LET diameter == via.drill + (annularWidth * 2) - 1
        IN IF diameter <= 0 THEN <<>>
           ELSE test(<<<<via.id>>>>, Disc(via.pos, diameter))
      padAreas(dev, pad) ==
        UnionAll([i \in 1..Len(pad.holes) |->
          LET diameter == pad.holes[i].diameter + (annularWidth * 2) - 1
          IN IF diameter <= 0 THEN {}
             ELSE Obround(PadMapPos(dev, pad, pad.holes[i].p1),
                          PadMapPos(dev, pad, pad.holes[i].p2), diameter)])
  IN FlatMap(LAMBDA seg : FlatMap(viaMsgs, seg.vias), b.netSegments)
     \o FlatMap(LAMBDA dev :
          FlatMap(LAMBDA pad : test(<<<<pad.id>>>>, padAreas(dev, pad)), dev.pads),
          b.devices)

checkMinimumPthAnnularRing(d, s, ignorePlanes, progressEnd) ==
  IF s.minPthAnnularRing = 0 THEN d
  ELSE LET d1 == EmitStatus(d, "Check minimum PTH annular rings...")
           d2 == [d1 EXCEPT !.cache = CacheAfterGetAll(d.board, d.cache,
                                                       CopperLayerSeq, ignorePlanes)]
       IN EmitProgress(
            EmitMessages(d2, AnnularRingMsgs(d.board, d.cache, s.minPthAnnularRing,
                                             ignorePlanes)),
            progressEnd)

-----------------------------------------------------------------------------
(* Drill, slot and pad checks *)

\* Hole::isSlot(): the path has more than one vertex
IsSlot(h) == h.vertices > 1

\* Hole::isMultiSegmentSlot(): the path has more than two vertices
IsMultiSegmentSlot(h) == h.vertices > 2

\* Hole::isCurvedSlot(): a vertex of the path has an arc angle
IsCurvedSlot(h) == h.curved

\* BoardDesignRuleCheckSettings::AllowedSlots as an integer
SlotRank(allowed) ==
  CASE allowed = "None" -> 0
    [] allowed = "SingleSegmentStraight" -> 1
    [] allowed = "MultiSegmentStraight" -> 2
    [] allowed = "Any" -> 3

\* getHoleLocation(hole, transform): the hole path stroked at its diameter
HoleLocation(p1, p2, diameter) == StrokeOutline(p1, p2, diameter)

\* the messages of checkMinimumNpthDrillDiameter
NpthDrillMsgs(b, minDiameter) ==
  FlatMap(LAMBDA h :
    IF (~IsSlot(h)) /\ h.diameter < minDiameter
    THEN <<Msg("MinimumDrillDiameterViolation", <<<<h.id>>>>, <<>>,
               HoleLocation(h.p1, h.p2, h.diameter))>>
    ELSE <<>>, b.holes)
  \o FlatMap(LAMBDA dev : FlatMap(LAMBDA h :
       IF (~IsSlot(h)) /\ h.diameter < minDiameter
       THEN <<Msg("MinimumDrillDiameterViolation", <<<<dev.id, h.id>>>>, <<>>,
                  HoleLocation(MapPos(dev, h.p1), MapPos(dev, h.p2), h.diameter))>>
       ELSE <<>>, dev.holes), b.devices)

checkMinimumNpthDrillDiameter(d, s, progressEnd) ==
  IF s.minNpthDrillDiameter = 0 THEN d
  ELSE EmitProgress(
         EmitMessages(EmitStatus(d, "Check minimum NPTH drill diameters..."),
                      NpthDrillMsgs(d.board, s.minNpthDrillDiameter)),
         progressEnd)

\* the messages of checkMinimumNpthSlotWidth
NpthSlotMsgs(b, minWidth) ==
  FlatMap(LAMBDA h :
    IF IsSlot(h) /\ h.diameter < minWidth
    THEN <<Msg("MinimumSlotWidthViolation", <<<<h.id>>>>, <<>>,
               HoleLocation(h.p1, h.p2, h.diameter))>>
    ELSE <<>>, b.holes)
  \o FlatMap(LAMBDA dev : FlatMap(LAMBDA h :
       IF IsSlot(h) /\ h.diameter < minWidth
       THEN <<Msg("MinimumSlotWidthViolation", <<<<dev.id, h.id>>>>, <<>>,
                  HoleLocation(MapPos(dev, h.p1), MapPos(dev, h.p2), h.diameter))>>
       ELSE <<>>, dev.holes), b.devices)

checkMinimumNpthSlotWidth(d, s, progressEnd) ==
  IF s.minNpthSlotWidth = 0 THEN d
  ELSE EmitProgress(
         EmitMessages(EmitStatus(d, "Check minimum NPTH slot width..."),
                      NpthSlotMsgs(d.board, s.minNpthSlotWidth)),
         progressEnd)

\* the messages of checkMinimumPthDrillDiameter
PthDrillMsgs(b, minDiameter) ==
  FlatMap(LAMBDA seg : FlatMap(LAMBDA via :
    IF via.drill < minDiameter
    THEN <<Msg("MinimumDrillDiameterViolation", <<<<via.id>>>>, <<>>,
               StrokeOutline(via.pos, via.pos, via.drill))>>
    ELSE <<>>, seg.vias), b.netSegments)
  \o FlatMap(LAMBDA dev : FlatMap(LAMBDA pad : FlatMap(LAMBDA h :
       IF h.diameter < minDiameter
       THEN <<Msg("MinimumDrillDiameterViolation", <<<<pad.id, h.id>>>>, <<>>,
                  StrokeOutline(MapPos(dev, pad.pos), MapPos(dev, pad.pos),
                                Max(h.diameter, 50000)))>>
       ELSE <<>>, pad.holes), dev.pads), b.devices)

checkMinimumPthDrillDiameter(d, s, progressEnd) ==
  IF s.minPthDrillDiameter = 0 THEN d
  ELSE EmitProgress(
         EmitMessages(EmitStatus(d, "Check minimum PTH drill diameters..."),
                      PthDrillMsgs(d.board, s.minPthDrillDiameter)),
         progressEnd)

\* the messages of checkMinimumPthSlotWidth
PthSlotMsgs(b, minWidth) ==
  FlatMap(LAMBDA dev : FlatMap(LAMBDA pad : FlatMap(LAMBDA h :
    IF IsSlot(h) /\ h.diameter < minWidth
    THEN <<Msg("MinimumSlotWidthViolation", <<<<pad.id, h.id>>>>, <<>>,
               HoleLocation(PadMapPos(dev, pad, h.p1), PadMapPos(dev, pad, h.p2),
                            h.diameter))>>
    ELSE <<>>, pad.holes), dev.pads), b.devices)

checkMinimumPthSlotWidth(d, s, progressEnd) ==
  IF s.minPthSlotWidth = 0 THEN d
  ELSE EmitProgress(
         EmitMessages(EmitStatus(d, "Check minimum PTH slot width..."),
                      PthSlotMsgs(d.board, s.minPthSlotWidth)),
         progressEnd)

\* requiresHoleSlotWarning with the multi-segment test against the wrong policy
RequiresHoleSlotWarningShifted(h, allowed) ==
  IF IsCurvedSlot(h) /\ SlotRank(allowed) < SlotRank("Any") THEN TRUE
  ELSE IF IsMultiSegmentSlot(h) /\ SlotRank(allowed) < SlotRank("SingleSegmentStraight")
       THEN TRUE
  ELSE IF IsSlot(h) /\ SlotRank(allowed) < SlotRank("SingleSegmentStraight")
       THEN TRUE
  ELSE FALSE

\* requiresHoleSlotWarning(hole, allowed)
RequiresHoleSlotWarning(h, allowed) ==
  IF IsCurvedSlot(h) /\ SlotRank(allowed) < SlotRank("Any") THEN TRUE
  ELSE IF IsMultiSegmentSlot(h) /\ SlotRank(allowed) < SlotRank("MultiSegmentStraight")
       THEN TRUE
  ELSE IF IsSlot(h) /\ SlotRank(allowed) < SlotRank("SingleSegmentStraight")
       THEN TRUE
  ELSE FALSE

\* the messages of checkAllowedNpthSlots
AllowedNpthSlotMsgs(b, allowed) ==
  FlatMap(LAMBDA h :
    IF RequiresHoleSlotWarning(h, allowed)
    THEN <<Msg("ForbiddenSlot", <<<<h.id>>>>, <<>>,
               HoleLocation(h.p1, h.p2, h.diameter))>>
    ELSE <<>>, b.holes)
  \o FlatMap(LAMBDA dev : FlatMap(LAMBDA h :
       IF RequiresHoleSlotWarning(h, allowed)
       THEN <<Msg("ForbiddenSlot", <<<<dev.id, h.id>>>>, <<>>,
                  HoleLocation(MapPos(dev, h.p1), MapPos(dev, h.p2), h.diameter))>>
       ELSE <<>>, dev.holes), b.devices)

\* checkAllowedNpthSlots without the early return
checkAllowedNpthSlotsNoReturn(d, s, progressEnd) ==
  EmitProgress(
    EmitMessages(EmitStatus(d, "Check for disallowed NPTH slots..."),
                 AllowedNpthSlotMsgs(d.board, s.allowedNpthSlots)),
    progressEnd)

checkAllowedNpthSlots(d, s, progressEnd) ==
  IF s.allowedNpthSlots = "Any" THEN d
  ELSE EmitProgress(
         EmitMessages(EmitStatus(d, "Check for disallowed NPTH slots..."),
                      AllowedNpthSlotMsgs(d.board, s.allowedNpthSlots)),
         progressEnd)

\* the messages of checkAllowedPthSlots
AllowedPthSlotMsgs(b, allowed) ==
  FlatMap(LAMBDA dev : FlatMap(LAMBDA pad : FlatMap(LAMBDA h :
    IF RequiresHoleSlotWarning(h, allowed)
    THEN <<Msg("ForbiddenSlot", <<<<pad.id, h.id>>>>, <<>>,
               HoleLocation(PadMapPos(dev, pad, h.p1), PadMapPos(dev, pad, h.p2),
                            h.diameter))>>
    ELSE <<>>, pad.holes), dev.pads), b.devices)

checkAllowedPthSlots(d, s, progressEnd) ==
  IF s.allowedPthSlots = "Any" THEN d
  ELSE EmitProgress(
         EmitMessages(EmitStatus(d, "Check for disallowed PTH slots..."),
                      AllowedPthSlotMsgs(d.board, s.allowedPthSlots)),
         progressEnd)

\* the messages of checkInvalidPadConnections
InvalidPadConnectionMsgs(b, order) ==
  FlatMap(LAMBDA dev : FlatMap(LAMBDA pad :
    FlatMap(LAMBDA layer :
      IF layer \in Range(pad.netLineLayers) /\ layer \notin pad.originInCopper
      THEN <<Msg("InvalidPadConnection", <<<<pad.id>>>>, <<layer>>,
                 StrokeOutline(MapPos(dev, pad.pos), MapPos(dev, pad.pos), 500000))>>
      ELSE <<>>, HashedLayerSeq(order)), dev.pads), b.devices)

checkInvalidPadConnections(d, order, progressEnd) ==
  EmitProgress(
    EmitMessages(EmitStatus(d, "Check pad connections..."),
                 InvalidPadConnectionMsgs(d.board, order)),
    progressEnd)

-----------------------------------------------------------------------------
(* Courtyard, placement, connection and stale object checks *)

\* getDeviceCourtyardPaths(device, layer)
DeviceCourtyardPaths(dev, layer) ==
  UnionAll([i \in 1..Len(dev.polygons) |->
    IF MapLayer(dev, dev.polygons[i].layer) = layer
    THEN DevPolygonArea(dev, dev.polygons[i]) ELSE {}])
  \cup UnionAll([i \in 1..Len(dev.circles) |->
    IF MapLayer(dev, dev.circles[i].layer) = layer
    THEN Disc(0, dev.circles[i].diameter) ELSE {}])

\* the messages of checkCourtyardClearances for one courtyard layer
CourtyardLayerMsgs(b, layer, order) ==
  LET devs == AddressOrderedDevices(b, order)
  IN Concat([i \in 1..Len(devs) |->
       Concat([k \in 1..(Len(devs) - i) |->
         LET hit == Intersect(DeviceCourtyardPaths(devs[i], layer),
                              DeviceCourtyardPaths(devs[i + k], layer))
         IN IF hit # {}
            THEN <<Msg("CourtyardOverlap", <<<<devs[i].id>>, <<devs[i + k].id>>>>,
                       <<>>, Convert(hit))>>
            ELSE <<>>])])

\* the messages of checkCourtyardClearances, in emission order
CourtyardMsgs(b, order) ==
  CourtyardLayerMsgs(b, "top_courtyard", order)
  \o CourtyardLayerMsgs(b, "bot_courtyard", order)

checkCourtyardClearances(d, order, progressEnd) ==
  EmitProgress(
    EmitMessages(EmitStatus(d, "Check courtyard clearances..."),
                 CourtyardMsgs(d.board, order)),
    progressEnd)

\* the messages of checkForUnplacedComponents
UnplacedComponentMsgs(b) ==
  FlatMap(LAMBDA cmp :
    IF (\A i \in 1..Len(b.devices) : b.devices[i].component # cmp.id)
       /\ ~cmp.schematicOnly
    THEN <<Msg("MissingDevice", <<<<cmp.id>>>>, <<>>, {})>>
    ELSE <<>>, b.components)

checkForUnplacedComponents(d, progressEnd) ==
  EmitProgress(
    EmitMessages(EmitStatus(d, "Check for unplaced components..."),
                 UnplacedComponentMsgs(d.board)),
    progressEnd)

\* the messages of checkForMissingConnections for the rebuilt air wires
MissingConnectionMsgs(b) ==
  FlatMap(LAMBDA aw :
    <<Msg("MissingConnection", <<<<aw.a1>>, <<aw.a2>>>>, <<>>,
          StrokeOutline(aw.p1, aw.p2, 50000))>>, b.airWires)

checkForMissingConnections(d, progressEnd) ==
  LET d1 == EmitStatus(d, "Check for missing connections...")
      d2 == [d1 EXCEPT !.board = ForceAirWiresRebuild(d.board),
                       !.boardCalls = Append(@, "forceAirWiresRebuild")]
  IN EmitProgress(EmitMessages(d2, MissingConnectionMsgs(d2.board)), progressEnd)

\* the messages of checkForStaleObjects
StaleObjectMsgs(b) ==
  FlatMap(LAMBDA seg :
    (IF ~seg.used THEN <<Msg("EmptyNetSegment", <<<<seg.id>>>>, <<>>, {})>> ELSE <<>>)
    \o FlatMap(LAMBDA np :
         IF ~np.used
         THEN <<Msg("UnconnectedJunction", <<<<np.id>>>>, <<>>,
                    StrokeOutline(np.pos, np.pos, 300000))>>
         ELSE <<>>, seg.netPoints), b.netSegments)

checkForStaleObjects(d, progressEnd) ==
  EmitProgress(
    EmitMessages(EmitStatus(d, "Check for stale objects..."),
                 StaleObjectMsgs(d.board)),
    progressEnd)

\* rebuildPlanes(progressEnd) that asks for the air wires as well
rebuildPlanesWithAirWires(d, progressEnd) ==
  LET d1 == EmitStatus(d, "Rebuild planes...")
      d2 == [d1 EXCEPT !.board = ForceAirWiresRebuild(RebuildAllPlanes(d.board)),
                       !.boardCalls = @ \o <<"rebuildAllPlanes", "forceAirWiresRebuild">>]
  IN EmitProgress(d2, progressEnd)

\* rebuildPlanes(progressEnd)
rebuildPlanes(d, progressEnd) ==
  LET d1 == EmitStatus(d, "Rebuild planes...")
      d2 == [d1 EXCEPT !.board = RebuildAllPlanes(d.board),
                       !.boardCalls = Append(@, "rebuildAllPlanes")]
  IN EmitProgress(d2, progressEnd)

-----------------------------------------------------------------------------
(* execute(quick) *)

\* the statements with the annular ring pass outside the if (!quick) block
StepsAnnularRingInQuick(q) ==
  <<"started">>
  \o (IF ~q THEN <<"rebuildPlanes">> ELSE <<>>)
  \o <<"checkMinimumCopperWidth", "checkCopperCopperClearances",
       "checkCopperBoardClearances", "checkCopperHoleClearances",
       "checkMinimumPthAnnularRing">>
  \o (IF ~q
      THEN <<"checkMinimumNpthDrillDiameter",
             "checkMinimumNpthSlotWidth", "checkMinimumPthDrillDiameter",
             "checkMinimumPthSlotWidth", "checkAllowedNpthSlots",
             "checkAllowedPthSlots", "checkInvalidPadConnections",
             "checkCourtyardClearances", "checkForUnplacedComponents",
             "checkForMissingConnections", "checkForStaleObjects">>
      ELSE <<>>)
  \o <<"finished">>

\* the statements with the plane rebuild outside the if (!quick) block
StepsRebuildInQuick(q) ==
  <<"started", "rebuildPlanes",
    "checkMinimumCopperWidth", "checkCopperCopperClearances",
    "checkCopperBoardClearances", "checkCopperHoleClearances">>
  \o (IF ~q
      THEN <<"checkMinimumPthAnnularRing", "checkMinimumNpthDrillDiameter",
             "checkMinimumNpthSlotWidth", "checkMinimumPthDrillDiameter",
             "checkMinimumPthSlotWidth", "checkAllowedNpthSlots",
             "checkAllowedPthSlots", "checkInvalidPadConnections",
             "checkCourtyardClearances", "checkForUnplacedComponents",
             "checkForMissingConnections", "checkForStaleObjects">>
      ELSE <<>>)
  \o <<"finished">>

\* the statements of execute(quick) that run, in order
Steps(q) ==
  <<"started">>
  \o (IF ~q THEN <<"rebuildPlanes">> ELSE <<>>)
  \o <<"checkMinimumCopperWidth", "checkCopperCopperClearances",
       "checkCopperBoardClearances", "checkCopperHoleClearances">>
  \o (IF ~q
      THEN <<"checkMinimumPthAnnularRing", "checkMinimumNpthDrillDiameter",
             "checkMinimumNpthSlotWidth", "checkMinimumPthDrillDiameter",
             "checkMinimumPthSlotWidth", "checkAllowedNpthSlots",
             "checkAllowedPthSlots", "checkInvalidPadConnections",
             "checkCourtyardClearances", "checkForUnplacedComponents",
             "checkForMissingConnections", "checkForStaleObjects">>
      ELSE <<>>)
  \o <<"finished">>

\* the start of execute() without the mMessages.clear()
StartedWithoutClear(d, q) ==
  LET d1 == EmitProgress(
              [d EXCEPT !.observer = <<Signal("started", -1, "", NoMsg)>>,
                        !.boardCalls = <<>>], 2)
  IN [d1 EXCEPT !.ignorePlanes = q, !.status = <<>>]

\* execute(): emit started(); emitProgress(2); then the members are reset
Started(d, q) ==
  LET d1 == EmitProgress(
              [d EXCEPT !.observer = <<Signal("started", -1, "", NoMsg)>>,
                        !.boardCalls = <<>>], 2)
  IN [d1 EXCEPT !.ignorePlanes = q, !.status = <<>>, !.messages = <<>>]

\* the end of execute() without the emitProgress(100)
FinishedWithoutProgress(d) ==
  LET d1 == EmitStatus(d, "Finished with " \o ToString(Len(d.messages))
                          \o " message(s)!")
  IN [d1 EXCEPT !.observer = Append(@, Signal("finished", -1, "", NoMsg))]

\* execute(): the final status, emitProgress(100); emit finished()
Finished(d) ==
  LET d1 == EmitStatus(d, "Finished with " \o ToString(Len(d.messages))
                          \o " message(s)!")
      d2 == EmitProgress(d1, 100)
  IN [d2 EXCEPT !.observer = Append(@, Signal("finished", -1, "", NoMsg))]

\* one statement of execute(quick)
RunStep(name, d, s, q, order) ==
  CASE name = "started" -> Started(d, q)
    [] name = "rebuildPlanes" -> rebuildPlanes(d, 12)
    [] name = "checkMinimumCopperWidth" -> checkMinimumCopperWidth(d, s, 14)
    [] name = "checkCopperCopperClearances" ->
         checkCopperCopperClearances(d, s, d.ignorePlanes, order, 34)
    [] name = "checkCopperBoardClearances" ->
         checkCopperBoardClearances(d, s, d.ignorePlanes, 44)
    [] name = "checkCopperHoleClearances" ->
         checkCopperHoleClearances(d, s, d.ignorePlanes, 54)
    [] name = "checkMinimumPthAnnularRing" ->
         checkMinimumPthAnnularRing(d, s, d.ignorePlanes, 64)
    [] name = "checkMinimumNpthDrillDiameter" -> checkMinimumNpthDrillDiameter(d, s, 66)
    [] name = "checkMinimumNpthSlotWidth" -> checkMinimumNpthSlotWidth(d, s, 68)
    [] name = "checkMinimumPthDrillDiameter" -> checkMinimumPthDrillDiameter(d, s, 70)
    [] name = "checkMinimumPthSlotWidth" -> checkMinimumPthSlotWidth(d, s, 72)
    [] name = "checkAllowedNpthSlots" -> checkAllowedNpthSlots(d, s, 74)
    [] name = "checkAllowedPthSlots" -> checkAllowedPthSlots(d, s, 76)
    [] name = "checkInvalidPadConnections" -> checkInvalidPadConnections(d, order, 78)
    [] name = "checkCourtyardClearances" -> checkCourtyardClearances(d, order, 91)
    [] name = "checkForUnplacedComponents" -> checkForUnplacedComponents(d, 93)
    [] name = "checkForMissingConnections" -> checkForMissingConnections(d, 95)
    [] name = "checkForStaleObjects" -> checkForStaleObjects(d, 97)
    [] name = "finished" -> Finished(d)

RECURSIVE RunSteps(_, _, _, _, _)
\* the statements `names` of execute(quick) run one after the other
RunSteps(names, d, s, q, order) ==
  IF names = <<>> THEN d
  ELSE CHOOSE r \in {RunSteps(Tail(names), d1, s, q, order) :
                       d1 \in {RunStep(Head(names), d, s, q, order)}} : TRUE

\* the whole of execute(quick)
Execute(d, s, q, order) == RunSteps(Steps(q), d, s, q, order)

\* the members of the check and what the host has seen of it
Cur ==
  [board |-> board, ignorePlanes |-> mIgnorePlanes, percent |-> mProgressPercent,
   status |-> mProgressStatus, messages |-> mMessages, cache |-> mCachedPaths,
   observer |-> observer, boardCalls |-> boardCalls]

\* the members take the values of d
Commit(d) ==
  /\ board' = d.board
  /\ mIgnorePlanes' = d.ignorePlanes
  /\ mProgressPercent' = d.percent
  /\ mProgressStatus' = d.status
  /\ mMessages' = d.messages
  /\ mCachedPaths' = d.cache
  /\ observer' = d.observer
  /\ boardCalls' = d.boardCalls

\* execute() is at the statement `name`
At(name) == pc > 0 /\ Steps(quick)[pc] = name

\* the statement `name` of the running execute() is carried out
Step(name) ==
  /\ At(name)
  /\ \E d \in {RunStep(name, Cur, settings, quick, iterOrder)} : Commit(d)
  /\ called' = Append(called, name)
  /\ pc' = pc + 1
  /\ UNCHANGED <<settings, iterOrder, quick, runs>>
  /\ UNCHANGED hostVars

-----------------------------------------------------------------------------
(* Boards and settings the model is run on *)

\* a round hole or a slot
Hole(id, p1, p2, diameter, vertices, curved) ==
  [id |-> id, p1 |-> p1, p2 |-> p2, diameter |-> diameter,
   vertices |-> vertices, curved |-> curved]

\* a footprint pad: through-hole pads carry one round hole
Pad(id, net, tht, pos, size) ==
  [id |-> id, netSignal |-> net, tht |-> tht, pos |-> pos, size |-> size,
   holes |-> IF tht THEN <<Hole("hole", 0, 0, 1, 1, FALSE)>> ELSE <<>>,
   netLineLayers |-> <<"top_cu">>,
   originInCopper |-> IF tht THEN {"top_cu", "bot_cu"} ELSE {"top_cu"}]

\* footprint polygon, board polygon
Polygon(id, layer, p1, p2) == [id |-> id, layer |-> layer, p1 |-> p1, p2 |-> p2]

\* a device with one pad and a courtyard on the top side or on both sides
Device(id, pos, pad, bothSides) ==
  [id |-> id, component |-> id, pos |-> pos, mirrored |-> FALSE,
   pads |-> <<pad>>,
   polygons |-> <<Polygon("courtyard_top", "top_courtyard", -2, 2)>>
                \o (IF bothSides
                    THEN <<Polygon("courtyard_bot", "bot_courtyard", -2, 2)>>
                    ELSE <<>>),
   circles |-> <<>>, holes |-> <<>>, strokeTexts |-> <<>>]

\* a net segment
NetSegment(id, net, vias, netLines, netPoints) ==
  [id |-> id, netSignal |-> net, vias |-> vias, netLines |-> netLines,
   netPoints |-> netPoints,
   used |-> (vias # <<>> \/ netLines # <<>> \/ netPoints # <<>>)]

NetLine(id, layer, p1, p2, width) ==
  [id |-> id, layer |-> layer, p1 |-> p1, p2 |-> p2, width |-> width]

Via(id, pos, size, drill) == [id |-> id, pos |-> pos, size |-> size, drill |-> drill]

\* a board with an outline at 0, two devices, a via, net lines, a plane and a hole
Board(d1pos, padTht, bothSides, overlap, planeStale) ==
  [netSegments |->
     << NetSegment("seg1", "n1", <<Via("via1", 11, 2, 2)>>,
                   <<NetLine("line1", "top_cu", 11, 13, 1)>>,
                   <<[id |-> "np1", pos |-> 13, used |-> TRUE]>>),
        NetSegment("seg2", "n2", <<>>,
                   <<NetLine("line2", "bot_cu", 4, 5, 2)>>,
                   <<[id |-> "np2", pos |-> 5, used |-> FALSE]>>),
        NetSegment("seg3", NoNet, <<>>, <<>>, <<>>) >>,
   planes |->
     << [id |-> "plane1", layer |-> "top_cu", netSignal |-> "n1", minWidth |-> 1,
         p1 |-> 13, p2 |-> 16,
         fragments |-> IF planeStale THEN {} ELSE Span(26, 29),
         fill |-> Span(26, 29)] >>,
   polygons |-> << Polygon("outline", "brd_outlines", 0, 0) >>,
   strokeTexts |->
     << [id |-> "text1", layer |-> "bot_cu", p1 |-> 7, p2 |-> 8, strokeWidth |-> 1] >>,
   holes |-> << Hole("hole1", 15, 15, 1, 1, FALSE), Hole("slot1", 18, 19, 1, 2, FALSE) >>,
   devices |->
     << Device("dev1", d1pos, Pad("pad1", "n2", padTht, 0, 2), bothSides),
        Device("dev2", IF overlap THEN d1pos + 3 ELSE 22,
               Pad("pad2", "n1", FALSE, 0, 2), bothSides) >>,
   components |->
     << [id |-> "dev1", schematicOnly |-> FALSE],
        [id |-> "dev2", schematicOnly |-> FALSE],
        [id |-> "cmp3", schematicOnly |-> FALSE],
        [id |-> "cmp4", schematicOnly |-> TRUE] >>,
   airWires |-> <<>>,
   airWiresDue |->
     << [a1 |-> "pad1", a2 |-> "line2", p1 |-> d1pos, p2 |-> 4, netSignal |-> "n2"] >>]

\* the boards of Init
Boards ==
  {Board(d1pos, padTht, bothSides, overlap, planeStale) :
     d1pos \in {2, 8}, padTht \in BOOLEAN, bothSides \in BOOLEAN,
     overlap \in BOOLEAN, planeStale \in BOOLEAN}

\* settings with every check enabled
SettingsOn ==
  [minCopperWidth |-> 2, minCopperCopperClearance |-> 6,
   minCopperBoardClearance |-> 3, minCopperNpthClearance |-> 3,
   minPthAnnularRing |-> 1, minNpthDrillDiameter |-> 2, minNpthSlotWidth |-> 2,
   minPthDrillDiameter |-> 2, minPthSlotWidth |-> 2,
   allowedNpthSlots |-> "None", allowedPthSlots |-> "None",
   maxArcTolerance |-> 1]

\* the numeric thresholds of the settings
NumericSettings ==
  {"minCopperWidth", "minCopperCopperClearance", "minCopperBoardClearance",
   "minCopperNpthClearance", "minPthAnnularRing", "minNpthDrillDiameter",
   "minNpthSlotWidth", "minPthDrillDiameter", "minPthSlotWidth"}

\* settings with every check that can be disabled disabled
SettingsOff ==
  [f \in DOMAIN SettingsOn |->
     IF f \in NumericSettings THEN 0
     ELSE IF f = "maxArcTolerance" THEN 1 ELSE "Any"]

\* the settings of Init: all checks enabled, one disabled, all disabled
SettingsChoices ==
  {SettingsOn, SettingsOff}
  \cup {[SettingsOn EXCEPT ![f] = 0] : f \in NumericSettings}
  \cup {[SettingsOn EXCEPT ![f] = "Any"] : f \in {"allowedNpthSlots", "allowedPthSlots"}}

\* QMap<QPair<const GraphicsLayer*, QSet<const NetSignal*>>, Paths>()
EmptyCache == [k \in {} |-> {}]

-----------------------------------------------------------------------------
(* Project: the lists of boards and schematics *)

\* number of Board objects and of Schematic objects that exist
MaxBoards == 3

MaxSchematics == 1

\* UUID, name and directory name of the Board or Schematic object e:
\* object 3 has the UUID of object 1 and the name of object 2, object 4 has
\* the directory name of object 1
ItemAttrs(e) ==
  [uuid |-> IF e = 3 THEN 1 ELSE e,
   name |-> IF e = 3 THEN 2 ELSE e,
   dir |-> IF e = 4 THEN 1 ELSE e]

\* Project::Project: no boards, no schematics
Project ==
  [mBoards |-> <<>>, mRemovedBoards |-> <<>>, deletedBoards |-> {},
   mSchematics |-> <<>>, mRemovedSchematics |-> <<>>, deletedSchematics |-> {},
   op |-> "none", result |-> "none", emitted |-> <<>>]

\* QList::removeOne
RemoveOne(list, e) ==
  LET at == {i \in 1..Len(list) : list[i] = e}
  IN IF at = {} THEN list
     ELSE LET k == CHOOSE i \in at : \A j \in at : i <= j
          IN SubSeq(list, 1, k - 1) \o SubSeq(list, k + 1, Len(list))

\* the body of addBoard() with the removed list left as it is
AddToListsKeepingRemoved(active, removed, e, newIndex, own, throws, signal) ==
  LET failed(result) ==
        [active |-> active, removed |-> removed, result |-> result, emitted |-> <<>>]
      index == IF newIndex < 0 \/ newIndex > Len(active) THEN Len(active)
               ELSE newIndex
  IN IF e \in Range(active) \/ ~own THEN failed("LogicError")
     ELSE IF \E i \in 1..Len(active) : ItemAttrs(active[i]).uuid = ItemAttrs(e).uuid
       THEN failed("RuntimeError")
     ELSE IF \E i \in 1..Len(active) : ItemAttrs(active[i]).name = ItemAttrs(e).name
       THEN failed("RuntimeError")
     ELSE IF \E i \in 1..Len(active) : ItemAttrs(active[i]).dir = ItemAttrs(e).dir
       THEN failed("RuntimeError")
     ELSE IF throws THEN failed("exception")
     ELSE [active |-> SubSeq(active, 1, index) \o <<e>>
                      \o SubSeq(active, index + 1, Len(active)),
           removed |-> removed,
           result |-> "ok",
           emitted |-> <<[signal |-> signal, index |-> index],
                         [signal |-> "attributesChanged", index |-> 0]>>]

\* the body of Project::addBoard() and of Project::addSchematic(), which
\* differ in the lists and in the signal: the lists and the signals after
\* the call, and how it ended
AddToLists(active, removed, e, newIndex, own, throws, signal) ==
  LET failed(result) ==
        [active |-> active, removed |-> removed, result |-> result, emitted |-> <<>>]
      index == IF newIndex < 0 \/ newIndex > Len(active) THEN Len(active)
               ELSE newIndex
  IN IF e \in Range(active) \/ ~own THEN failed("LogicError")
     ELSE IF \E i \in 1..Len(active) : ItemAttrs(active[i]).uuid = ItemAttrs(e).uuid
       THEN failed("RuntimeError")
     ELSE IF \E i \in 1..Len(active) : ItemAttrs(active[i]).name = ItemAttrs(e).name
       THEN failed("RuntimeError")
     ELSE IF \E i \in 1..Len(active) : ItemAttrs(active[i]).dir = ItemAttrs(e).dir
       THEN failed("RuntimeError")
     ELSE IF throws THEN failed("exception")
     ELSE [active |-> SubSeq(active, 1, index) \o <<e>>
                      \o SubSeq(active, index + 1, Len(active)),
           removed |-> IF e \in Range(removed) THEN RemoveOne(removed, e)
                       ELSE removed,
           result |-> "ok",
           emitted |-> <<[signal |-> signal, index |-> index],
                         [signal |-> "attributesChanged", index |-> 0]>>]

\* the body of Project::removeBoard() and of Project::removeSchematic();
\* only removeSchematic() asks whether the schematic is empty
RemoveFromLists(active, removed, e, delete, isEmpty, throws, signal) ==
  LET failed(result) ==
        [active |-> active, removed |-> removed, result |-> result, emitted |-> <<>>]
  IN IF e \notin Range(active) \/ e \in Range(removed) THEN failed("LogicError")
     ELSE IF ~delete /\ ~isEmpty
       THEN failed("RuntimeError")
     ELSE IF throws THEN failed("exception")
     ELSE LET k == CHOOSE i \in 1..Len(active) :
                     active[i] = e /\ \A j \in 1..(i - 1) : active[j] # e
          IN [active |-> SubSeq(active, 1, k - 1) \o SubSeq(active, k + 1, Len(active)),
              removed |-> IF delete THEN removed ELSE Append(removed, e),
              result |-> "ok",
              emitted |-> <<[signal |-> signal, index |-> k - 1],
                            [signal |-> "attributesChanged", index |-> 0]>>]

\* Project::addBoard(board, newIndex)
addBoard(p, e, newIndex, own, throws) ==
  LET r == AddToLists(p.mBoards, p.mRemovedBoards, e, newIndex, own, throws,
                      "boardAdded")
  IN [p EXCEPT !.mBoards = r.active, !.mRemovedBoards = r.removed,
               !.op = "addBoard", !.result = r.result, !.emitted = r.emitted]

\* Project::removeBoard(board, deleteBoard)
removeBoard(p, e, deleteBoard, throws) ==
  LET r == RemoveFromLists(p.mBoards, p.mRemovedBoards, e, deleteBoard, TRUE,
                           throws, "boardRemoved")
  IN [p EXCEPT !.mBoards = r.active, !.mRemovedBoards = r.removed,
               !.deletedBoards = IF r.result = "ok" /\ deleteBoard
                                 THEN p.deletedBoards \cup {e}
                                 ELSE p.deletedBoards,
               !.op = "removeBoard", !.result = r.result, !.emitted = r.emitted]

\* Project::addSchematic(schematic, newIndex)
addSchematic(p, e, newIndex, own, throws) ==
  LET r == AddToLists(p.mSchematics, p.mRemovedSchematics, e, newIndex, own,
                      throws, "schematicAdded")
  IN [p EXCEPT !.mSchematics = r.active, !.mRemovedSchematics = r.removed,
               !.op = "addSchematic", !.result = r.result, !.emitted = r.emitted]

\* Project::removeSchematic(schematic, deleteSchematic)
removeSchematic(p, e, deleteSchematic, isEmpty, throws) ==
  LET r == RemoveFromLists(p.mSchematics, p.mRemovedSchematics, e,
                           deleteSchematic, isEmpty, throws, "schematicRemoved")
  IN [p EXCEPT !.mSchematics = r.active, !.mRemovedSchematics = r.removed,
               !.deletedSchematics = IF r.result = "ok" /\ deleteSchematic
                                     THEN p.deletedSchematics \cup {e}
                                     ELSE p.deletedSchematics,
               !.op = "removeSchematic", !.result = r.result,
               !.emitted = r.emitted]

-----------------------------------------------------------------------------
(* BI_Device: adding a device to the board and removing it *)

MaxPads == 3

MaxTexts == 2

\* BI_Device::BI_Device: a device with its pads and stroke texts, not yet
\* added to the board
BI_Device(nPads, nTexts) ==
  [mPads |-> nPads, mStrokeTexts |-> nTexts,
   mIsAddedToBoard |-> FALSE,
   registered |-> FALSE,
   padAdded |-> [i \in 1..nPads |-> FALSE],
   textAdded |-> [i \in 1..nTexts |-> FALSE],
   textObjs |-> [i \in 1..nTexts |-> i],
   others |-> {}, handedAdded |-> FALSE,
   op |-> "none", result |-> "none", log |-> <<>>]

\* one call made by addToBoard()/removeFromBoard() on a part of the device
DeviceCall(fn, i) == [fn |-> fn, i |-> i, throws |-> FALSE]

\* the effect of a call that returns; a call that throws has no effect
DoDeviceCall(d, c) ==
  IF c.throws THEN d
  ELSE IF c.fn = "registerDevice" THEN [d EXCEPT !.registered = TRUE]
  ELSE IF c.fn = "unregisterDevice" THEN [d EXCEPT !.registered = FALSE]
  ELSE IF c.fn = "pad.addToBoard" THEN [d EXCEPT !.padAdded[c.i] = TRUE]
  ELSE IF c.fn = "pad.removeFromBoard" THEN [d EXCEPT !.padAdded[c.i] = FALSE]
  ELSE IF c.fn = "text.addToBoard" THEN [d EXCEPT !.textAdded[c.i] = TRUE]
  ELSE IF c.fn = "text.removeFromBoard" THEN [d EXCEPT !.textAdded[c.i] = FALSE]
  ELSE IF c.fn = "BI_Base::addToBoard" THEN [d EXCEPT !.mIsAddedToBoard = TRUE]
  ELSE [d EXCEPT !.mIsAddedToBoard = FALSE]

RECURSIVE DoDeviceCalls(_, _)
DoDeviceCalls(d, calls) ==
  IF calls = <<>> THEN d
  ELSE DoDeviceCalls(DoDeviceCall(d, Head(calls)), Tail(calls))

\* the call a guard makes to take a call back
UndoCall(c) ==
  DeviceCall(CASE c.fn = "registerDevice" -> "unregisterDevice"
               [] c.fn = "unregisterDevice" -> "registerDevice"
               [] c.fn = "pad.addToBoard" -> "pad.removeFromBoard"
               [] c.fn = "pad.removeFromBoard" -> "pad.addToBoard"
               [] c.fn = "text.addToBoard" -> "text.removeFromBoard"
               [] c.fn = "text.removeFromBoard" -> "text.addToBoard",
             c.i)

\* the calls of addToBoard() that can throw, in the order of the code
AddCalls(d) ==
  <<DeviceCall("registerDevice", 0)>>
  \o [i \in 1..d.mPads |-> DeviceCall("pad.addToBoard", i)]
  \o [i \in 1..d.mStrokeTexts |-> DeviceCall("text.addToBoard", i)]

\* the calls of removeFromBoard() that can throw, in the order of the code
RemoveCalls(d) ==
  [i \in 1..d.mPads |-> DeviceCall("pad.removeFromBoard", i)]
  \o [i \in 1..d.mStrokeTexts |-> DeviceCall("text.removeFromBoard", i)]
  \o <<DeviceCall("unregisterDevice", 0)>>

AddGuardsWithoutUnregister(performed) ==
  [i \in 1..(Len(performed) - 1) |-> UndoCall(performed[i + 1])]

\* the guards addToBoard() has handed to the ScopeGuardList after the calls
\* performed: one sgl.add() behind every call
AddGuards(performed) ==
  [i \in 1..Len(performed) |-> UndoCall(performed[i])]

\* the guards of removeFromBoard()
RemoveGuards(performed) ==
  [i \in 1..Len(performed) |-> UndoCall(performed[i])]

\* ~ScopeGuardList() of a list that was not dismissed: the guards run, the
\* last one added first
RunScopeGuards(guards) == Reverse(guards)

\* the calls made when call number failAt throws (0: no call throws)
CallsUntilThrow(calls, guards, failAt) ==
  SubSeq(calls, 1, failAt - 1)
  \o <<[calls[failAt] EXCEPT !.throws = TRUE]>>
  \o RunScopeGuards(guards)

\* BI_Device::addToBoard()
addToBoard(d, failAt) ==
  IF d.mIsAddedToBoard
    THEN [d EXCEPT !.op = "addToBoard", !.result = "LogicError", !.log = <<>>]
  ELSE IF failAt \in 1..Len(AddCalls(d))
    THEN LET log == CallsUntilThrow(AddCalls(d),
                      AddGuards(SubSeq(AddCalls(d), 1, failAt - 1)), failAt)
         IN [DoDeviceCalls(d, log) EXCEPT
               !.op = "addToBoard", !.result = "exception", !.log = log]
  ELSE LET log == Append(AddCalls(d), DeviceCall("BI_Base::addToBoard", 0))
       IN [DoDeviceCalls(d, log) EXCEPT
             !.op = "addToBoard", !.result = "ok", !.log = log]

\* BI_Device::removeFromBoard()
removeFromBoard(d, failAt) ==
  IF ~d.mIsAddedToBoard
    THEN [d EXCEPT !.op = "removeFromBoard", !.result = "LogicError", !.log = <<>>]
  ELSE IF failAt \in 1..Len(RemoveCalls(d))
    THEN LET log == CallsUntilThrow(RemoveCalls(d),
                      RemoveGuards(SubSeq(RemoveCalls(d), 1, failAt - 1)), failAt)
         IN [DoDeviceCalls(d, log) EXCEPT
               !.op = "removeFromBoard", !.result = "exception", !.log = log]
  ELSE LET log == Append(RemoveCalls(d), DeviceCall("BI_Base::removeFromBoard", 0))
       IN [DoDeviceCalls(d, log) EXCEPT
             !.op = "removeFromBoard", !.result = "ok", !.log = log]

\* everything but the device
checkVars == <<board, settings, iterOrder, pc, quick, runs, mIgnorePlanes,
               mProgressPercent, mProgressStatus, mMessages, mCachedPaths,
               observer, called, boardCalls, exception, cancelRequested>>

\* a board editor holds a device of up to MaxPads pads and MaxTexts stroke
\* texts; no design rule check is running
InitDevice ==
  /\ \E nPads \in 0..MaxPads : \E nTexts \in 0..MaxTexts :
       mDevice = BI_Device(nPads, nTexts)
  /\ mProject = Project
  /\ board = Board(0, FALSE, FALSE, FALSE, FALSE)
  /\ settings = SettingsOff
  /\ iterOrder = "fwd"
  /\ pc = 0
  /\ quick = FALSE
  /\ runs = 0
  /\ mIgnorePlanes = FALSE
  /\ mProgressPercent = 0
  /\ mProgressStatus = <<>>
  /\ mMessages = <<>>
  /\ mCachedPaths = EmptyCache
  /\ observer = <<>>
  /\ called = <<>>
  /\ boardCalls = <<>>
  /\ exception = FALSE
  /\ cancelRequested = FALSE

\* the editor adds the device; one of the calls may throw
AddToBoard ==
  /\ \E failAt \in 0..Len(AddCalls(mDevice)) : mDevice' = addToBoard(mDevice, failAt)
  /\ UNCHANGED <<checkVars, mProject>>

\* the editor removes the device; one of the calls may throw
RemoveFromBoard ==
  /\ \E failAt \in 0..Len(RemoveCalls(mDevice)) : mDevice' = removeFromBoard(mDevice, failAt)
  /\ UNCHANGED <<checkVars, mProject>>

NextDevice == AddToBoard \/ RemoveFromBoard

SpecDevice == InitDevice /\ [][NextDevice]_vars

-----------------------------------------------------------------------------
(* BI_Device: adding stroke texts to a device and removing them *)

\* the BI_StrokeText objects of the board: those the device is constructed
\* with, a further one, and one with the UUID of the first
TextObjs == 1..(MaxTexts + 2)

\* BI_StrokeText::getUuid()
UuidOf(o) == IF o = MaxTexts + 2 THEN 1 ELSE o

\* the place of a text in mStrokeTexts, a QMap ordered by UUID
TextPlace(d, o) ==
  1 + Cardinality({i \in 1..d.mStrokeTexts : UuidOf(d.textObjs[i]) < UuidOf(o)})

\* mStrokeTexts.insert(uuid, &text) of a text that is added to the board or
\* not
InsertText(d, o, added) ==
  LET k == TextPlace(d, o)
      n == d.mStrokeTexts
  IN [d EXCEPT !.mStrokeTexts = n + 1,
               !.textObjs = SubSeq(d.textObjs, 1, k - 1) \o <<o>>
                            \o SubSeq(d.textObjs, k, n),
               !.textAdded = SubSeq(d.textAdded, 1, k - 1) \o <<added>>
                             \o SubSeq(d.textAdded, k, n),
               !.others = d.others \ {o}]

\* mStrokeTexts.remove(uuid) of the text at place k, which stays on the board
\* if it is still added
RemoveText(d, k) ==
  LET n == d.mStrokeTexts
  IN [d EXCEPT !.mStrokeTexts = n - 1,
               !.textObjs = SubSeq(d.textObjs, 1, k - 1) \o SubSeq(d.textObjs, k + 1, n),
               !.textAdded = SubSeq(d.textAdded, 1, k - 1)
                             \o SubSeq(d.textAdded, k + 1, n),
               !.others = IF d.textAdded[k] THEN d.others \cup {d.textObjs[k]}
                          ELSE d.others]

\* addStrokeText() without the call of text.addToBoard()
addStrokeTextWithoutAdding(d, o, sameBoard) ==
  LET entered == [d EXCEPT !.op = "addStrokeText", !.log = <<>>,
                          !.handedAdded = d.handedAdded \/ o \in d.others]
  IN IF (\E i \in 1..d.mStrokeTexts : d.textObjs[i] = o) \/ ~sameBoard
       THEN [entered EXCEPT !.result = "LogicError"]
     ELSE IF \E i \in 1..d.mStrokeTexts : UuidOf(d.textObjs[i]) = UuidOf(o)
       THEN [entered EXCEPT !.result = "RuntimeError"]
     ELSE [InsertText(entered, o, o \in d.others) EXCEPT !.result = "ok"]

\* BI_Device::addStrokeText(text)
addStrokeText(d, o, sameBoard) ==
  LET entered == [d EXCEPT !.op = "addStrokeText", !.log = <<>>,
                          !.handedAdded = d.handedAdded \/ o \in d.others]
  IN IF (\E i \in 1..d.mStrokeTexts : d.textObjs[i] = o) \/ ~sameBoard
       THEN [entered EXCEPT !.result = "LogicError"]
     ELSE IF \E i \in 1..d.mStrokeTexts : UuidOf(d.textObjs[i]) = UuidOf(o)
       THEN [entered EXCEPT !.result = "RuntimeError"]
     ELSE IF d.mIsAddedToBoard
       THEN IF o \in d.others
              THEN [entered EXCEPT !.result = "LogicError"]
            ELSE [InsertText(entered, o, TRUE) EXCEPT !.result = "ok"]
     ELSE [InsertText(entered, o, o \in d.others) EXCEPT !.result = "ok"]

\* BI_Device::removeStrokeText(text)
removeStrokeText(d, o) ==
  LET entered == [d EXCEPT !.op = "removeStrokeText", !.log = <<>>]
      held == {i \in 1..d.mStrokeTexts : d.textObjs[i] = o}
  IN IF held = {}
       THEN [entered EXCEPT !.result = "LogicError"]
     ELSE LET k == CHOOSE i \in held : TRUE
          IN IF d.mIsAddedToBoard
               THEN IF ~d.textAdded[k]
                      THEN [entered EXCEPT !.result = "LogicError"]
                    ELSE [RemoveText([entered EXCEPT !.textAdded[k] = FALSE], k)
                            EXCEPT !.result = "ok"]
             ELSE [RemoveText(entered, k) EXCEPT !.result = "ok"]

\* a board editor holds a device of up to one pad and MaxTexts stroke texts;
\* the further stroke text is on the board by itself or not
InitTexts ==
  /\ \E nPads \in 0..1 : \E nTexts \in 0..MaxTexts :
       \E others \in SUBSET {MaxTexts + 1} :
         mDevice = [BI_Device(nPads, nTexts) EXCEPT !.others = others]
  /\ mProject = Project
  /\ board = Board(0, FALSE, FALSE, FALSE, FALSE)
  /\ settings = SettingsOff
  /\ iterOrder = "fwd"
  /\ pc = 0
  /\ quick = FALSE
  /\ runs = 0
  /\ mIgnorePlanes = FALSE
  /\ mProgressPercent = 0
  /\ mProgressStatus = <<>>
  /\ mMessages = <<>>
  /\ mCachedPaths = EmptyCache
  /\ observer = <<>>
  /\ called = <<>>
  /\ boardCalls = <<>>
  /\ exception = FALSE
  /\ cancelRequested = FALSE

\* the editor hands a stroke text of this or of another board to the device
AddStrokeText ==
  /\ \E o \in TextObjs : \E sameBoard \in BOOLEAN :
       mDevice' = addStrokeText(mDevice, o, sameBoard)
  /\ UNCHANGED <<checkVars, mProject>>

\* the editor takes a stroke text from the device
RemoveStrokeText ==
  /\ \E o \in TextObjs : mDevice' = removeStrokeText(mDevice, o)
  /\ UNCHANGED <<checkVars, mProject>>

NextTexts == AddToBoard \/ RemoveFromBoard \/ AddStrokeText \/ RemoveStrokeText

SpecTexts == InitTexts /\ [][NextTexts]_vars

-----------------------------------------------------------------------------
(* Project: adding boards and schematics and removing them *)

\* a project editor holds a project without boards and schematics; no design
\* rule check is running
InitProject ==
  /\ mProject = Project
  /\ mDevice = BI_Device(0, 0)
  /\ board = Board(0, FALSE, FALSE, FALSE, FALSE)
  /\ settings = SettingsOff
  /\ iterOrder = "fwd"
  /\ pc = 0
  /\ quick = FALSE
  /\ runs = 0
  /\ mIgnorePlanes = FALSE
  /\ mProgressPercent = 0
  /\ mProgressStatus = <<>>
  /\ mMessages = <<>>
  /\ mCachedPaths = EmptyCache
  /\ observer = <<>>
  /\ called = <<>>
  /\ boardCalls = <<>>
  /\ exception = FALSE
  /\ cancelRequested = FALSE

\* the editor adds a board object that exists, of this or of another
\* project, at an index; board.addToProject() may throw
AddBoard ==
  /\ \E e \in (1..MaxBoards) \ mProject.deletedBoards :
       \E newIndex \in -1..(Len(mProject.mBoards) + 1) : \E own \in BOOLEAN :
         \E throws \in IF own THEN BOOLEAN ELSE {FALSE} :
         mProject' = addBoard(mProject, e, newIndex, own, throws)
  /\ UNCHANGED <<checkVars, mDevice>>

\* the editor removes a board object, deleting it or not;
\* board.removeFromProject() may throw
RemoveBoard ==
  /\ \E e \in (1..MaxBoards) \ mProject.deletedBoards :
       \E deleteBoard, throws \in BOOLEAN :
         mProject' = removeBoard(mProject, e, deleteBoard, throws)
  /\ UNCHANGED <<checkVars, mDevice>>

\* the editor adds a schematic object that exists
AddSchematic ==
  /\ \E e \in (1..MaxSchematics) \ mProject.deletedSchematics :
       \E newIndex \in -1..(Len(mProject.mSchematics) + 1) : \E own \in BOOLEAN :
         \E throws \in IF own THEN BOOLEAN ELSE {FALSE} :
         mProject' = addSchematic(mProject, e, newIndex, own, throws)
  /\ UNCHANGED <<checkVars, mDevice>>

\* the editor removes a schematic object, which is empty or not
RemoveSchematic ==
  /\ \E e \in (1..MaxSchematics) \ mProject.deletedSchematics :
       \E deleteSchematic, isEmpty, throws \in BOOLEAN :
         mProject' = removeSchematic(mProject, e, deleteSchematic, isEmpty, throws)
  /\ UNCHANGED <<checkVars, mDevice>>

NextProject == AddBoard \/ RemoveBoard \/ AddSchematic \/ RemoveSchematic

SpecProject == InitProject /\ [][NextProject]_vars

-----------------------------------------------------------------------------
(* The check as a state machine *)

\* the constructor: BoardDesignRuleCheck(board, settings)
Init ==
  /\ board \in Boards
  /\ settings \in SettingsChoices
  /\ iterOrder \in {"fwd", "rev"}
  /\ pc = 0
  /\ quick = FALSE
  /\ runs = 0
  /\ mIgnorePlanes = FALSE
  /\ mProgressPercent = 0
  /\ mProgressStatus = <<>>
  /\ mMessages = <<>>
  /\ mCachedPaths = EmptyCache
  /\ observer = <<>>
  /\ called = <<>>
  /\ boardCalls = <<>>
  /\ exception = FALSE
  /\ cancelRequested = FALSE
  /\ mDevice = BI_Device(1, 1)
  /\ mProject = Project

\* the host calls execute(q): started(), emitProgress(2), members reset
Start(q) ==
  /\ pc = 0
  /\ runs < MaxRuns
  /\ quick' = q
  /\ runs' = runs + 1
  /\ \E d \in {RunStep("started", Cur, settings, q, iterOrder)} : Commit(d)
  /\ called' = <<"started">>
  /\ pc' = 2
  /\ exception' = FALSE
  /\ cancelRequested' = FALSE
  /\ UNCHANGED <<settings, iterOrder, mDevice, mProject>>

RebuildPlanes ==
  /\ At("rebuildPlanes")
  /\ Step("rebuildPlanes")

CheckMinimumCopperWidth ==
  /\ At("checkMinimumCopperWidth")
  /\ Step("checkMinimumCopperWidth")

CheckCopperCopperClearances ==
  /\ At("checkCopperCopperClearances")
  /\ Step("checkCopperCopperClearances")

CheckCopperBoardClearances ==
  /\ At("checkCopperBoardClearances")
  /\ Step("checkCopperBoardClearances")

CheckCopperHoleClearances ==
  /\ At("checkCopperHoleClearances")
  /\ Step("checkCopperHoleClearances")

CheckMinimumPthAnnularRing ==
  /\ At("checkMinimumPthAnnularRing")
  /\ Step("checkMinimumPthAnnularRing")

CheckMinimumNpthDrillDiameter ==
  /\ At("checkMinimumNpthDrillDiameter")
  /\ Step("checkMinimumNpthDrillDiameter")

CheckMinimumNpthSlotWidth ==
  /\ At("checkMinimumNpthSlotWidth")
  /\ Step("checkMinimumNpthSlotWidth")

CheckMinimumPthDrillDiameter ==
  /\ At("checkMinimumPthDrillDiameter")
  /\ Step("checkMinimumPthDrillDiameter")

CheckMinimumPthSlotWidth ==
  /\ At("checkMinimumPthSlotWidth")
  /\ Step("checkMinimumPthSlotWidth")

CheckAllowedNpthSlots ==
  /\ At("checkAllowedNpthSlots")
  /\ Step("checkAllowedNpthSlots")

CheckAllowedPthSlots ==
  /\ At("checkAllowedPthSlots")
  /\ Step("checkAllowedPthSlots")

CheckInvalidPadConnections ==
  /\ At("checkInvalidPadConnections")
  /\ Step("checkInvalidPadConnections")

CheckCourtyardClearances ==
  /\ At("checkCourtyardClearances")
  /\ Step("checkCourtyardClearances")

CheckForUnplacedComponents ==
  /\ At("checkForUnplacedComponents")
  /\ Step("checkForUnplacedComponents")

CheckForMissingConnections ==
  /\ At("checkForMissingConnections")
  /\ Step("checkForMissingConnections")

CheckForStaleObjects ==
  /\ At("checkForStaleObjects")
  /\ Step("checkForStaleObjects")

\* the end of execute(): final status, emitProgress(100), finished()
Finish ==
  /\ At("finished")
  /\ \E d \in {RunStep("finished", Cur, settings, quick, iterOrder)} : Commit(d)
  /\ called' = Append(called, "finished")
  /\ pc' = 0
  /\ UNCHANGED <<settings, iterOrder, quick, runs>>
  /\ UNCHANGED hostVars

Next ==
  \/ \E q \in BOOLEAN : Start(q)
  \/ RebuildPlanes
  \/ CheckMinimumCopperWidth
  \/ CheckCopperCopperClearances
  \/ CheckCopperBoardClearances
  \/ CheckCopperHoleClearances
  \/ CheckMinimumPthAnnularRing
  \/ CheckMinimumNpthDrillDiameter
  \/ CheckMinimumNpthSlotWidth
  \/ CheckMinimumPthDrillDiameter
  \/ CheckMinimumPthSlotWidth
  \/ CheckAllowedNpthSlots
  \/ CheckAllowedPthSlots
  \/ CheckInvalidPadConnections
  \/ CheckCourtyardClearances
  \/ CheckForUnplacedComponents
  \/ CheckForMissingConnections
  \/ CheckForStaleObjects
  \/ Finish

Spec == Init /\ [][Next]_vars

-----------------------------------------------------------------------------
(* A check that fails, and a host that asks for cancellation *)

\* the checks that call the geometry kernel (ClipperHelpers, the path
\* generator) or BI_StrokeText::generatePaths, none of which is noexcept
ThrowingChecks ==
  {"checkMinimumCopperWidth", "checkCopperCopperClearances",
   "checkCopperBoardClearances", "checkCopperHoleClearances",
   "checkMinimumPthAnnularRing", "checkCourtyardClearances"}

\* the number of progressMessage signals among sigs
MessageSignals(sigs) ==
  Len(SelectSeq(sigs, LAMBDA e : e.type = "progressMessage"))

\* A call made by the check at which execute() is throws. The check has
\* passed its early return and emitted its status string; it has emitted
\* some of its messages and not yet its progress.  execute() has no handler,
\* so the exception leaves it: nothing after the check is carried out.
CheckThrows ==
  /\ pc > 0
  /\ Steps(quick)[pc] \in ThrowingChecks
  /\ \E r \in {RunStep(Steps(quick)[pc], Cur, settings, quick, iterOrder)} :
       /\ Len(r.observer) >= Len(observer) + 3
       /\ \E j \in (Len(observer) + 2)..(Len(r.observer) - 1) :
            /\ observer' = SubSeq(r.observer, 1, j)
            /\ mMessages' = SubSeq(r.messages, 1,
                                   MessageSignals(SubSeq(r.observer, 1, j)))
       /\ mProgressStatus' = r.status
       /\ mCachedPaths' \in {mCachedPaths, r.cache}
  /\ called' = Append(called, Steps(quick)[pc])
  /\ pc' = 0
  /\ exception' = TRUE
  /\ UNCHANGED <<board, settings, iterOrder, quick, runs, mIgnorePlanes,
                 mProgressPercent, boardCalls, cancelRequested, mDevice, mProject>>

NextThrow == Next \/ CheckThrows

SpecThrow == Init /\ [][NextThrow]_vars

\* While execute() pumps the events of the host (emitStatus), the host asks
\* for the run to be cancelled.  The check has no member and no method that
\* takes the request: it stays with the host.
RequestCancel ==
  /\ pc > 0
  /\ ~cancelRequested
  /\ \E i \in 1..Len(observer) : observer[i].type = "processEvents"
  /\ cancelRequested' = TRUE
  /\ UNCHANGED <<board, settings, iterOrder, pc, quick, runs, mIgnorePlanes,
                 mProgressPercent, mProgressStatus, mMessages, mCachedPaths,
                 observer, called, boardCalls, exception, mDevice, mProject>>

NextCancel == Next \/ RequestCancel

SpecCancel == Init /\ [][NextCancel]_vars

-----------------------------------------------------------------------------
(* The copper/copper clearance check on boards of vias and net lines *)

\* the arc tolerances drawn in InitCC
ArcTolerances == {1, 2}

\* the i-th net segment of a board of InitCC, holding one copper object: a
\* via, or a net line on the top or on the bottom copper layer. The objects
\* are 2 nm wide and lie in turn at the grid positions 0 .. MaxPos, which
\* are 3 nm apart, so that two of them cover the same place or leave a gap
\* of 1 nm or more.
SegmentCC(i, net, kind) ==
  IF kind = "via"
  THEN NetSegment(ToString(i), net, <<Via(ToString(i), 3 * (i % (MaxPos + 1)), 2, 1)>>, <<>>, <<>>)
  ELSE NetSegment(ToString(i), net, <<>>,
                  <<NetLine(ToString(i), kind, 3 * (i % (MaxPos + 1)), 3 * (i % (MaxPos + 1)), 2)>>, <<>>)

\* a board holding nothing but the net segments segs
BoardCC(segs) ==
  [netSegments |-> segs, planes |-> <<>>, polygons |-> <<>>, strokeTexts |-> <<>>,
   holes |-> <<>>, devices |-> <<>>, components |-> <<>>, airWires |-> <<>>,
   airWiresDue |-> <<>>]

\* what one segment of a board of InitCC can be: net signal and kind
SegmentChoices ==
  {"n1", "n2", NoNet} \X {"via", "top_cu", "bot_cu"}

\* the board of InitCC with the n segments f[1] .. f[n]
BoardOfCC(n, f) ==
  BoardCC([i \in 1..n |-> SegmentCC(i, f[i][1], f[i][2])])

\* the settings of InitCC: only the copper/copper check is enabled
SettingsCC ==
  {[SettingsOff EXCEPT !.minCopperCopperClearance = c, !.maxArcTolerance = t] :
     c \in 0..MaxClearance, t \in ArcTolerances}

\* the members of a check that has not run on board b
Fresh(b) ==
  [board |-> b, ignorePlanes |-> FALSE, percent |-> 0, status |-> <<>>,
   messages |-> <<>>, cache |-> EmptyCache, observer |-> <<>>, boardCalls |-> <<>>]

\* execute(true) has reached checkCopperCopperClearances on a board of up to
\* MaxItems copper objects
InitCC ==
  /\ settings \in SettingsCC
  /\ iterOrder = "fwd"
  /\ quick = TRUE
  /\ runs = 1
  /\ pc = 3
  /\ called = <<"started", "checkMinimumCopperWidth">>
  /\ exception = FALSE
  /\ cancelRequested = FALSE
  /\ mDevice = BI_Device(1, 1)
  /\ mProject = Project
  /\ \E n \in 0..MaxItems : \E f \in [1..n -> SegmentChoices] :
       \E d \in {RunSteps(called, Fresh(BoardOfCC(n, f)), settings, TRUE, iterOrder)} :
          /\ board = d.board
          /\ mIgnorePlanes = d.ignorePlanes
          /\ mProgressPercent = d.percent
          /\ mProgressStatus = d.status
          /\ mMessages = d.messages
          /\ mCachedPaths = d.cache
          /\ observer = d.observer
          /\ boardCalls = d.boardCalls

NextCC == CheckCopperCopperClearances

SpecCC == InitCC /\ [][NextCC]_vars

-----------------------------------------------------------------------------
(* The minimum drill diameter and slot width checks on boards of holes *)

\* largest hole diameter drawn in InitDrill
MaxDrill == 2

\* the diameters and the shapes (round, slot) of a hole of InitDrill
HoleChoices == (1..MaxDrill) \X BOOLEAN

\* a hole at position p: round, or a straight slot of two vertices
HoleDrill(id, p, choice) ==
  Hole(id, p, IF choice[2] THEN p + 1 ELSE p, choice[1],
       IF choice[2] THEN 2 ELSE 1, FALSE)

\* a board with one board hole, one package hole in dev1 and one hole in
\* the through-hole pad of dev1
BoardDrill(hb, hd, hp) ==
  LET b == Board(0, TRUE, FALSE, FALSE, FALSE)
  IN [b EXCEPT !.holes = <<HoleDrill("hole1", 15, hb)>>,
               !.devices[1].holes = <<HoleDrill("hole2", 3, hd)>>,
               !.devices[1].pads[1].holes = <<HoleDrill("hole", 0, hp)>>]

\* the settings of InitDrill: only the four drill and slot checks are
\* enabled, with a drill threshold and a slot threshold
SettingsDrill ==
  {[SettingsOff EXCEPT !.minNpthDrillDiameter = td, !.minPthDrillDiameter = td,
                       !.minNpthSlotWidth = tw, !.minPthSlotWidth = tw] :
     td \in 1..(MaxDrill + 1), tw \in 1..(MaxDrill + 1)}

\* execute(false) has reached checkMinimumNpthDrillDiameter
InitDrill ==
  /\ settings \in SettingsDrill
  /\ iterOrder = "fwd"
  /\ quick = FALSE
  /\ runs = 1
  /\ pc = 8
  /\ called = SubSeq(Steps(FALSE), 1, 7)
  /\ exception = FALSE
  /\ cancelRequested = FALSE
  /\ mDevice = BI_Device(1, 1)
  /\ mProject = Project
  /\ \E hb \in HoleChoices : \E hd \in HoleChoices : \E hp \in HoleChoices :
       \E d \in {RunSteps(called, Fresh(BoardDrill(hb, hd, hp)), settings,
                          FALSE, iterOrder)} :
          /\ board = d.board
          /\ mIgnorePlanes = d.ignorePlanes
          /\ mProgressPercent = d.percent
          /\ mProgressStatus = d.status
          /\ mMessages = d.messages
          /\ mCachedPaths = d.cache
          /\ observer = d.observer
          /\ boardCalls = d.boardCalls

NextDrill ==
  \/ CheckMinimumNpthDrillDiameter
  \/ CheckMinimumNpthSlotWidth
  \/ CheckMinimumPthDrillDiameter
  \/ CheckMinimumPthSlotWidth

SpecDrill == InitDrill /\ [][NextDrill]_vars

-----------------------------------------------------------------------------
(* The allowed slots checks on boards of holes *)

\* BoardDesignRuleCheckSettings::AllowedSlots
AllowedSlots == {"None", "SingleSegmentStraight", "MultiSegmentStraight", "Any"}

\* the shapes of a hole of InitSlots, as <<vertices, curved>>: round,
\* straight slot of one or two segments, curved slot of one or two segments
SlotChoices == {<<1, FALSE>>, <<2, FALSE>>, <<3, FALSE>>, <<2, TRUE>>, <<3, TRUE>>}

\* a board with one board hole, one package hole in dev1 and one hole in
\* the through-hole pad of dev1, each of a shape of SlotChoices
BoardSlots(hb, hd, hp) ==
  LET b == Board(0, TRUE, FALSE, FALSE, FALSE)
      h(id, p, c) == Hole(id, p, IF c[1] > 1 THEN p + 1 ELSE p, 1, c[1], c[2])
  IN [b EXCEPT !.holes = <<h("hole1", 15, hb)>>,
               !.devices[1].holes = <<h("hole2", 3, hd)>>,
               !.devices[1].pads[1].holes = <<h("hole", 0, hp)>>]

\* execute(false) has reached checkAllowedNpthSlots; only the two allowed
\* slots checks can be enabled
InitSlots ==
  /\ \E a \in AllowedSlots : \E p \in AllowedSlots :
       settings = [SettingsOff EXCEPT !.allowedNpthSlots = a, !.allowedPthSlots = p]
  /\ iterOrder = "fwd"
  /\ quick = FALSE
  /\ runs = 1
  /\ pc = 12
  /\ called = SubSeq(Steps(FALSE), 1, 11)
  /\ exception = FALSE
  /\ cancelRequested = FALSE
  /\ mDevice = BI_Device(1, 1)
  /\ mProject = Project
  /\ \E hb \in SlotChoices : \E hd \in SlotChoices : \E hp \in SlotChoices :
       \E d \in {RunSteps(called, Fresh(BoardSlots(hb, hd, hp)), settings,
                          FALSE, iterOrder)} :
          /\ board = d.board
          /\ mIgnorePlanes = d.ignorePlanes
          /\ mProgressPercent = d.percent
          /\ mProgressStatus = d.status
          /\ mMessages = d.messages
          /\ mCachedPaths = d.cache
          /\ observer = d.observer
          /\ boardCalls = d.boardCalls

NextSlots ==
  \/ CheckAllowedNpthSlots
  \/ CheckAllowedPthSlots

SpecSlots == InitSlots /\ [][NextSlots]_vars

-----------------------------------------------------------------------------
(* Runs on boards with a via inside a plane *)

\* largest min_pth_annular_ring and via drill drawn in InitRing
MaxRing == 2

\* a board whose via via1 (at 11, size 2) lies inside plane1 on top_cu and
\* above the net line line2 on bot_cu: around the via there is copper on
\* both layers only where the plane is filled
BoardRing(drill, planeStale) ==
  LET b == Board(2, TRUE, FALSE, FALSE, planeStale)
  IN [b EXCEPT !.netSegments[1].vias = <<Via("via1", 11, 2, drill)>>,
               !.netSegments[2].netLines = <<NetLine("line2", "bot_cu", 9, 13, 2)>>,
               !.planes[1].fill = Span(18, 26),
               !.planes[1].fragments = IF planeStale THEN {} ELSE Span(18, 26)]

\* the constructor, for a board of BoardRing and settings with the annular
\* ring check enabled and the hole clearance check enabled or not
InitRing ==
  /\ \E drill \in 1..MaxRing : \E planeStale \in BOOLEAN :
       board = BoardRing(drill, planeStale)
  /\ \E a \in 1..MaxRing : \E c \in 0..1 :
       settings = [SettingsOff EXCEPT !.minPthAnnularRing = a,
                                      !.minCopperNpthClearance = c]
  /\ iterOrder = "fwd"
  /\ pc = 0
  /\ quick = FALSE
  /\ runs = 0
  /\ mIgnorePlanes = FALSE
  /\ mProgressPercent = 0
  /\ mProgressStatus = <<>>
  /\ mMessages = <<>>
  /\ mCachedPaths = EmptyCache
  /\ observer = <<>>
  /\ called = <<>>
  /\ boardCalls = <<>>
  /\ exception = FALSE
  /\ cancelRequested = FALSE
  /\ mDevice = BI_Device(1, 1)
  /\ mProject = Project

SpecRing == InitRing /\ [][Next]_vars

-----------------------------------------------------------------------------
(* Runs on boards whose devices have circles as courtyards *)

\* a board whose devices dev1 and dev2 lie at pos1 and pos2 and have, as
\* their only courtyard, a circle of the diameter at their origin on
\* top_courtyard
BoardCourt(pos1, pos2, diameter) ==
  LET b == Board(pos1, FALSE, FALSE, FALSE, FALSE)
      c == [layer |-> "top_courtyard", center |-> 0, diameter |-> diameter]
  IN [b EXCEPT !.devices[1].polygons = <<>>, !.devices[1].circles = <<c>>,
               !.devices[2].pos = pos2,
               !.devices[2].polygons = <<>>, !.devices[2].circles = <<c>>]

\* the constructor, for a board of BoardCourt
InitCourt ==
  /\ \E pos1 \in {2, 8} : \E pos2 \in {3, 22} : \E diameter \in 1..MaxRing :
       board = BoardCourt(pos1, pos2, diameter)
  /\ settings \in {SettingsOn, SettingsOff}
  /\ iterOrder \in {"fwd", "rev"}
  /\ pc = 0
  /\ quick = FALSE
  /\ runs = 0
  /\ mIgnorePlanes = FALSE
  /\ mProgressPercent = 0
  /\ mProgressStatus = <<>>
  /\ mMessages = <<>>
  /\ mCachedPaths = EmptyCache
  /\ observer = <<>>
  /\ called = <<>>
  /\ boardCalls = <<>>
  /\ exception = FALSE
  /\ cancelRequested = FALSE
  /\ mDevice = BI_Device(1, 1)
  /\ mProject = Project

SpecCourt == InitCourt /\ [][Next]_vars

-----------------------------------------------------------------------------
(* The minimum copper width check on boards of drawn widths *)

\* largest width and largest min_copper_width drawn in InitWidth
MaxWidth == 2

\* a board whose stroke text text1, net line line1 (on the layer given),
\* plane plane1 and stroke text dtext1 of device dev1 have the widths w[1],
\* w[2], w[3] and w[4]
BoardWidth(w, lineLayer) ==
  LET b == Board(2, FALSE, FALSE, FALSE, FALSE)
  IN [b EXCEPT !.strokeTexts[1].strokeWidth = w[1],
               !.netSegments[1].netLines = <<NetLine("line1", lineLayer, 11, 13, w[2])>>,
               !.planes[1].minWidth = w[3],
               !.devices[1].strokeTexts =
                 <<[id |-> "dtext1", layer |-> "top_cu", p1 |-> 1, p2 |-> 2,
                    strokeWidth |-> w[4]]>>]

\* execute(true) has reached checkMinimumCopperWidth
InitWidth ==
  /\ \E w \in 1..MaxWidth :
       settings = [SettingsOff EXCEPT !.minCopperWidth = w]
  /\ iterOrder = "fwd"
  /\ quick = TRUE
  /\ runs = 1
  /\ pc = 2
  /\ called = <<"started">>
  /\ exception = FALSE
  /\ cancelRequested = FALSE
  /\ mDevice = BI_Device(1, 1)
  /\ mProject = Project
  /\ \E w \in [1..4 -> 1..MaxWidth] : \E lineLayer \in {"top_cu", "in1_cu"} :
       \E d \in {RunSteps(called, Fresh(BoardWidth(w, lineLayer)), settings,
                          TRUE, iterOrder)} :
          /\ board = d.board
          /\ mIgnorePlanes = d.ignorePlanes
          /\ mProgressPercent = d.percent
          /\ mProgressStatus = d.status
          /\ mMessages = d.messages
          /\ mCachedPaths = d.cache
          /\ observer = d.observer
          /\ boardCalls = d.boardCalls

SpecWidth == InitWidth /\ [][CheckMinimumCopperWidth]_vars

-----------------------------------------------------------------------------
(* Properties of a run of execute(quick) *)

\* the percentages of the progressPercent signals received so far in this run
ProgressValues ==
  LET ps == SelectSeq(observer, LAMBDA e : e.type = "progressPercent")
  IN [i \in 1..Len(ps) |-> ps[i].percent]

\* execute() has returned at least once and is not running
RunFinished == pc = 0 /\ runs > 0

\* C1: in every run, with any settings and either value of quick, the
\* progress percentages the observer receives never decrease, and the last
\* one of a finished run is 100.
C1_ProgressMonotone ==
  /\ \A i, j \in 1..Len(ProgressValues) :
       i <= j => ProgressValues[i] <= ProgressValues[j]
  /\ RunFinished =>
       /\ ProgressValues # <<>>
       /\ ProgressValues[Len(ProgressValues)] = 100

\* a finished quick run with a disabled check, whose percentages rose in
\* several steps up to 100
C1_Witness ==
  /\ RunFinished
  /\ quick
  /\ settings.minCopperBoardClearance = 0
  /\ Len(ProgressValues) >= 4
  /\ ProgressValues[1] = 2
  /\ ProgressValues[Len(ProgressValues)] = 100

\* the order of the passes of a full run
FullOrder ==
  <<"started", "rebuildPlanes", "checkMinimumCopperWidth",
    "checkCopperCopperClearances", "checkCopperBoardClearances",
    "checkCopperHoleClearances", "checkMinimumPthAnnularRing",
    "checkMinimumNpthDrillDiameter", "checkMinimumNpthSlotWidth",
    "checkMinimumPthDrillDiameter", "checkMinimumPthSlotWidth",
    "checkAllowedNpthSlots", "checkAllowedPthSlots",
    "checkInvalidPadConnections", "checkCourtyardClearances",
    "checkForUnplacedComponents", "checkForMissingConnections",
    "checkForStaleObjects", "finished">>

\* the order of the passes of a quick run: the plane rebuild, the annular
\* ring pass and every pass after it left out
QuickOrder ==
  <<"started", "checkMinimumCopperWidth", "checkCopperCopperClearances",
    "checkCopperBoardClearances", "checkCopperHoleClearances", "finished">>

IsPrefix(a, b) == Len(a) <= Len(b) /\ \A i \in 1..Len(a) : a[i] = b[i]

\* C2: a full run executes the passes in the fixed order FullOrder, a quick
\* run in the order QuickOrder, and no pass is executed twice in one run.
C2_PassOrder ==
  LET expected == IF quick THEN QuickOrder ELSE FullOrder
  IN /\ runs > 0 => IsPrefix(called, expected)
     /\ RunFinished => called = expected
     /\ \A i, j \in 1..Len(called) : i # j => called[i] # called[j]

\* a quick run that has returned after all its passes
C2_Witness == RunFinished /\ quick /\ Len(called) = 6 /\ mMessages # <<>>

\* C3: in one run rebuildAllPlanes and forceAirWiresRebuild are each invoked
\* exactly once when quick = false and not at all when quick = true, and the
\* board changes in no other way.
C3_BoardRefreshes ==
  /\ [](/\ quick => boardCalls = <<>>
        /\ IsPrefix(boardCalls, <<"rebuildAllPlanes", "forceAirWiresRebuild">>)
        /\ (RunFinished /\ ~quick) =>
             boardCalls = <<"rebuildAllPlanes", "forceAirWiresRebuild">>)
  /\ [][board' # board =>
          \/ /\ board' = RebuildAllPlanes(board)
             /\ boardCalls' = Append(boardCalls, "rebuildAllPlanes")
          \/ /\ board' = ForceAirWiresRebuild(board)
             /\ boardCalls' = Append(boardCalls, "forceAirWiresRebuild")]_vars

\* a full run has returned, the planes hold their rebuilt fragments and the
\* air wires are the rebuilt ones
C3_Witness ==
  /\ RunFinished
  /\ ~quick
  /\ boardCalls = <<"rebuildAllPlanes", "forceAirWiresRebuild">>
  /\ board.airWires # <<>>
  /\ \A i \in 1..Len(board.planes) : board.planes[i].fragments # {}

\* identity of a message: kind, involved objects, layers
MsgId(m) == [kind |-> m.kind, objs |-> m.objs, layers |-> m.layers]

MsgIds(msgs) == {MsgId(msgs[i]) : i \in 1..Len(msgs)}

\* C5: for the same board and settings every message a run with quick = true
\* emits is also emitted by a run with quick = false: for the two runs
\* started in the same state of the check, and for a quick run that has
\* returned and a full run started after it.
C5_QuickSubset ==
  pc = 0 =>
    /\ MsgIds(Execute(Cur, settings, TRUE, iterOrder).messages)
         \subseteq MsgIds(Execute(Cur, settings, FALSE, iterOrder).messages)
    /\ (runs > 0 /\ quick) =>
         MsgIds(mMessages)
           \subseteq MsgIds(Execute(Cur, settings, FALSE, iterOrder).messages)

\* a quick run has returned with messages and a full run of the same check
\* would emit them and more
C5_Witness ==
  /\ RunFinished
  /\ quick
  /\ mMessages # <<>>
  /\ MsgIds(mMessages) # MsgIds(Execute(Cur, settings, FALSE, iterOrder).messages)
  /\ MsgIds(mMessages)
       \subseteq MsgIds(Execute(Cur, settings, FALSE, iterOrder).messages)

\* C9: within one run no two emitted messages have the same identity (kind,
\* involved object ids, layer).
C9_UniqueIdentity ==
  \A i, j \in 1..Len(mMessages) :
    i # j => MsgId(mMessages[i]) # MsgId(mMessages[j])

\* the messages of the progressMessage signals received so far in this run
DeliveredMessages ==
  LET ms == SelectSeq(observer, LAMBDA e : e.type = "progressMessage")
  IN [i \in 1..Len(ms) |-> ms[i].msg]

\* the status strings of the passes that emit messages of a kind
StatusOfKind(kind) ==
  CASE kind = "MinimumWidthViolation" -> {"Check minimum copper width..."}
    [] kind = "CopperCopperClearanceViolation" -> {"Check copper clearances..."}
    [] kind = "CopperBoardClearanceViolation" -> {"Check board clearances..."}
    [] kind = "CopperHoleClearanceViolation" -> {"Check hole clearances..."}
    [] kind = "MinimumAnnularRingViolation" -> {"Check minimum PTH annular rings..."}
    [] kind = "MinimumDrillDiameterViolation" ->
         {"Check minimum NPTH drill diameters...", "Check minimum PTH drill diameters..."}
    [] kind = "MinimumSlotWidthViolation" ->
         {"Check minimum NPTH slot width...", "Check minimum PTH slot width..."}
    [] kind = "ForbiddenSlot" ->
         {"Check for disallowed NPTH slots...", "Check for disallowed PTH slots..."}
    [] kind = "InvalidPadConnection" -> {"Check pad connections..."}
    [] kind = "CourtyardOverlap" -> {"Check courtyard clearances..."}
    [] kind = "MissingDevice" -> {"Check for unplaced components..."}
    [] kind = "MissingConnection" -> {"Check for missing connections..."}
    [] kind = "EmptyNetSegment" -> {"Check for stale objects..."}
    [] kind = "UnconnectedJunction" -> {"Check for stale objects..."}

\* C10: messages reach the observer in the order and at the moment they are
\* produced: what has been delivered is at any time what has been produced,
\* and every message is delivered after the status string of its own pass and
\* before the status string of the next pass.
C10_MessagesAsProduced ==
  /\ DeliveredMessages = mMessages
  /\ \A i \in 1..Len(observer) :
       observer[i].type = "progressMessage" =>
         \E k \in 1..(i - 1) :
           /\ observer[k].type = "progressStatus"
           /\ observer[k].text \in StatusOfKind(observer[i].msg.kind)
           /\ \A n \in (k + 1)..(i - 1) : observer[n].type # "progressStatus"

\* execute() is between two passes, messages of two passes are delivered and
\* later passes are still to run
C10_Witness ==
  /\ pc > 0
  /\ At("checkCopperHoleClearances")
  /\ \E i, j \in 1..Len(DeliveredMessages) :
       /\ DeliveredMessages[i].kind = "MinimumWidthViolation"
       /\ DeliveredMessages[j].kind = "CopperBoardClearanceViolation"

-----------------------------------------------------------------------------
(* Properties of the copper/copper clearance check *)

\* checkCopperCopperClearances has just returned
AfterCC == called # <<>> /\ called[Len(called)] = "checkCopperCopperClearances"

\* the items the check has built for the board and settings
ItemsCC ==
  CopperItems(board,
              CopperOffset(settings.minCopperCopperClearance, MaxArcTolerance(settings)),
              mIgnorePlanes, iterOrder)

\* the copper/copper messages emitted so far
MessagesCC ==
  SelectSeq(mMessages, LAMBDA m : m.kind = "CopperCopperClearanceViolation")

\* an item as a message names it: object and layer
ItemRef(it) == <<it.obj, it.layer>>

\* the unordered pair of items a copper/copper message involves
PairOf(m) == {<<m.objs[1], m.layers[1]>>, <<m.objs[2], m.layers[2]>>}

PairSet(msgs) == {PairOf(msgs[i]) : i \in 1..Len(msgs)}

\* the pair of items violates: not one non-null net, compatible layers,
\* intersecting offset areas
Violates(a, b) ==
  /\ ~(a.netSignal = b.netSignal /\ a.netSignal # NoNet)
  /\ (a.layer = NoLayer \/ b.layer = NoLayer \/ a.layer = b.layer)
  /\ a.areas \cap b.areas # {}

\* C4: for every unordered pair of distinct items exactly one violation is
\* emitted if the items do not share one non-null net signal, at least one
\* has an empty layer or both layers are equal, and their offset areas
\* intersect; otherwise none is emitted for the pair.
C4_PairwiseViolations ==
  (AfterCC /\ settings.minCopperCopperClearance > 0) =>
    \A items \in {ItemsCC} : \A msgs \in {MessagesCC} :
      /\ \A i, j \in 1..Len(items) :
           i < j =>
             Cardinality({k \in 1..Len(msgs) :
                            PairOf(msgs[k]) = {ItemRef(items[i]), ItemRef(items[j])}})
               = IF Violates(items[i], items[j]) THEN 1 ELSE 0
      /\ Len(msgs)
           = Cardinality({p \in (1..Len(items)) \X (1..Len(items)) :
                            p[1] < p[2] /\ Violates(items[p[1]], items[p[2]])})

\* the check has run on three items and emitted two violations: a via of no
\* net violates against a net line, two intersecting items of one net do not
C4_Witness ==
  /\ AfterCC
  /\ Len(MessagesCC) = 2
  /\ \E items \in {ItemsCC} :
       /\ Len(items) = 3
       /\ \E i, j \in 1..3 :
            /\ i # j
            /\ items[i].layer = NoLayer /\ items[i].netSignal = NoNet
            /\ items[j].layer # NoLayer
            /\ Violates(items[i], items[j])
       /\ \E i, j \in 1..3 :
            /\ i # j
            /\ items[i].netSignal = items[j].netSignal
            /\ items[i].netSignal # NoNet
            /\ items[i].areas \cap items[j].areas # {}

\* the board with the net segments i and j exchanged
SwapSegments(b, i, j) ==
  [b EXCEPT !.netSegments =
     [k \in 1..Len(b.netSegments) |->
        IF k = i THEN b.netSegments[j]
        ELSE IF k = j THEN b.netSegments[i] ELSE b.netSegments[k]]]

\* the copper/copper messages of the check for board b and clearance c
RerunCC(b, c) ==
  checkCopperCopperClearances(
    Fresh(b), [settings EXCEPT !.minCopperCopperClearance = c],
    mIgnorePlanes, iterOrder, 34).messages

\* C6: exchanging two items in the iteration order does not change the set
\* of emitted violations, a violation being the unordered pair of its items.
C6_OrderIndependent ==
  AfterCC =>
    \A i, j \in 1..Len(board.netSegments) :
      i < j =>
        PairSet(RerunCC(SwapSegments(board, i, j), settings.minCopperCopperClearance))
          = PairSet(MessagesCC)

\* the check has emitted violations, and with two items exchanged it emits
\* them in another order or with the items of a message exchanged
C6_Witness ==
  /\ AfterCC
  /\ Len(MessagesCC) >= 2
  /\ \E i, j \in 1..Len(board.netSegments) :
       /\ i < j
       /\ RerunCC(SwapSegments(board, i, j), settings.minCopperCopperClearance)
            # MessagesCC

\* C7: for a fixed board and arc tolerance, the number of violations emitted
\* with a clearance c1 is at most the number emitted with a clearance
\* c2 >= c1, c1 = 0 (check disabled) included.
C7_MonotoneInClearance ==
  AfterCC =>
    \A c1 \in 0..settings.minCopperCopperClearance :
      Len(RerunCC(board, c1)) <= Len(MessagesCC)

\* the check has emitted more violations than a smaller non-zero clearance
\* gives, which gives some
C7_Witness ==
  /\ AfterCC
  /\ \E c1 \in 1..settings.minCopperCopperClearance :
       /\ Len(RerunCC(board, c1)) > 0
       /\ Len(RerunCC(board, c1)) < Len(MessagesCC)

\* the board with net signal n2 merged into net signal n1
MergeNets(b, n1, n2) ==
  [b EXCEPT !.netSegments =
     [k \in 1..Len(b.netSegments) |->
        IF b.netSegments[k].netSignal = n2
        THEN [b.netSegments[k] EXCEPT !.netSignal = n1]
        ELSE b.netSegments[k]]]

\* the net signals of the items of a pair, the items being among `items`
NetsOfPair(p, items) ==
  {items[i].netSignal : i \in {k \in 1..Len(items) : ItemRef(items[k]) \in p}}

\* C8: merging the net signals of two distinct nets, the geometry unchanged,
\* never adds a violation, and only violations between items of the two
\* merged nets disappear.
C8_MergeNeverAdds ==
  (AfterCC /\ settings.minCopperCopperClearance > 0) =>
    \A n1, n2 \in {"n1", "n2"} :
      n1 # n2 =>
        \A before \in {PairSet(MessagesCC)} :
          \A after \in {PairSet(RerunCC(MergeNets(board, n1, n2),
                                        settings.minCopperCopperClearance))} :
            /\ after \subseteq before
            /\ before # after =>
                 \A items \in {ItemsCC} :
                   \A p \in before \ after : NetsOfPair(p, items) = {n1, n2}

\* the check has emitted a violation between two nets that a merge of the
\* nets removes, and another one that the merge leaves
C8_Witness ==
  /\ AfterCC
  /\ \E n1, n2 \in {"n1", "n2"} :
       /\ n1 # n2
       /\ PairSet(RerunCC(MergeNets(board, n1, n2), settings.minCopperCopperClearance))
            # {}
       /\ PairSet(RerunCC(MergeNets(board, n1, n2), settings.minCopperCopperClearance))
            # PairSet(MessagesCC)

-----------------------------------------------------------------------------
(* Properties of the end of a run and of the copper-paths cache *)

\* the status strings received so far in this run
StatusTexts ==
  LET ss == SelectSeq(observer, LAMBDA e : e.type = "progressStatus")
  IN [i \in 1..Len(ss) |-> ss[i].text]

\* C11: the message count in the status string of a finished run is the
\* number of messages the observer has received between the started and the
\* finished signal of that run; messages of an earlier run on the same
\* instance are not counted.
C11_FinishedCount ==
  RunFinished =>
    /\ StatusTexts # <<>>
    /\ StatusTexts[Len(StatusTexts)]
         = "Finished with " \o ToString(Len(DeliveredMessages)) \o " message(s)!"
    /\ observer[Len(observer)].type = "finished"

\* the second run on one instance has returned: a quick run that has
\* delivered messages and reports their number
C11_Witness ==
  /\ RunFinished
  /\ runs = 2
  /\ quick
  /\ Len(DeliveredMessages) > 0
  /\ StatusTexts[Len(StatusTexts)]
       = "Finished with " \o ToString(Len(DeliveredMessages)) \o " message(s)!"

-----------------------------------------------------------------------------
(* Properties of failing checks and of cancellation *)

\* C12: a check that fails with an internal error is aborted alone: the
\* error never leaves execute(), and the run still ends with progress 100
\* and the finished signal.
C12_ErrorsContained ==
  /\ ~exception
  /\ RunFinished =>
       /\ observer[Len(observer)].type = "finished"
       /\ ProgressValues[Len(ProgressValues)] = 100

\* C13: once cancellation is requested while a run is in progress, the next
\* thing the engine does is to end the run with a Cancelled status: no
\* further check starts, no further message is emitted, and the run does not
\* finish.
C13_CancelInterrupts ==
  [][(pc > 0 /\ cancelRequested) =>
       /\ pc' = 0
       /\ called' = called
       /\ mMessages' = mMessages
       /\ StatusTexts' # <<>>
       /\ StatusTexts'[Len(StatusTexts')] = "Cancelled"
       /\ observer'[Len(observer')].type # "finished"]_vars

\* C14: the copper-paths cache tells entries apart by the ignore-planes
\* flag: the areas a request returns are those of the board generated with
\* the flag of the run that makes the request.  checkCopperHoleClearances
\* has just requested the copper of every copper layer.
C14_CacheKeyedByFlag ==
  (/\ pc > 0
   /\ called[Len(called)] = "checkCopperHoleClearances"
   /\ settings.minCopperNpthClearance > 0) =>
    \A i \in 1..Len(CopperLayerSeq) :
      GetCopperPaths(board, mCachedPaths, CopperLayerSeq[i], {}, mIgnorePlanes)
        = CopperArea(board, CopperLayerSeq[i], {}, mIgnorePlanes)

\* C15: the copper-paths cache is empty whenever no run is in progress: when
\* a run starts, and again once it has finished.
C15_CacheClearedAfterRun ==
  pc = 0 => mCachedPaths = EmptyCache

\* C16: addToBoard() and removeFromBoard() of a device are atomic.  When
\* registerDevice, a pad or a stroke text throws inside addToBoard(), every
\* call performed before is taken back, the last one first, and nothing of
\* the device is left added; when a call throws inside removeFromBoard(),
\* likewise, and the device is left added as a whole.
UndoneInReverse(log) ==
  \E k \in 1..Len(log) :
    /\ log[k].throws
    /\ Len(log) = 2 * k - 1
    /\ \A j \in 1..(k - 1) : log[k + j] = UndoCall(log[k - j])

C16_DeviceAtomic ==
  mDevice.result = "exception" =>
    /\ UndoneInReverse(mDevice.log)
    /\ mDevice.mIsAddedToBoard = (mDevice.op = "removeFromBoard")
    /\ mDevice.registered = (mDevice.op = "removeFromBoard")
    /\ \A i \in 1..mDevice.mPads : mDevice.padAdded[i] = (mDevice.op = "removeFromBoard")
    /\ \A i \in 1..mDevice.mStrokeTexts : mDevice.textAdded[i] = (mDevice.op = "removeFromBoard")

\* the last stroke text of a device with two pads has thrown in addToBoard()
C16_Witness ==
  /\ mDevice.result = "exception"
  /\ mDevice.op = "addToBoard"
  /\ mDevice.mPads = 2
  /\ mDevice.mStrokeTexts = 2
  /\ Len(mDevice.log) = 9

\* the check procedures of execute(): every step but the start, the plane
\* rebuild and the end
CheckProcedures ==
  {Steps(FALSE)[i] : i \in 1..Len(Steps(FALSE))}
    \ {"started", "rebuildPlanes", "finished"}

\* C17 as stated: rebuildAllPlanes and forceAirWiresRebuild are invoked by
\* execute itself or by a step that is not a check, never from inside a
\* check procedure.
C17_NeverInsideCheck ==
  [][Len(boardCalls') > Len(boardCalls) =>
       called'[Len(called')] \notin CheckProcedures]_vars

\* C17, amended: rebuildAllPlanes is invoked only by rebuildPlanes, the step
\* of execute that is not a check, and forceAirWiresRebuild only from inside
\* checkForMissingConnections; no other check procedure invokes either.
C17_RefreshCallers ==
  [][Len(boardCalls') > Len(boardCalls) =>
       \/ /\ boardCalls' = Append(boardCalls, "rebuildAllPlanes")
          /\ called'[Len(called')] = "rebuildPlanes"
       \/ /\ boardCalls' = Append(boardCalls, "forceAirWiresRebuild")
          /\ called'[Len(called')] = "checkForMissingConnections"]_vars

\* a full run has ended after both refreshes
C17_Witness ==
  /\ pc = 0
  /\ called # <<>>
  /\ called[Len(called)] = "finished"
  /\ boardCalls = <<"rebuildAllPlanes", "forceAirWiresRebuild">>

\* C18: for every min_copper_copper_clearance > 0 and every arc tolerance,
\* the offset of the copper/copper check is
\* max(floor((clearance - max_arc_tolerance) / 2) - 1, 0), it is never
\* negative, and the messages of the check are those of the items grown by
\* that value.
C18_OffsetFormula ==
  (AfterCC /\ settings.minCopperCopperClearance > 0) =>
    \A off \in {Max(((settings.minCopperCopperClearance
                       - settings.maxArcTolerance) \div 2) - 1, 0)} :
      /\ CopperOffset(settings.minCopperCopperClearance,
                      MaxArcTolerance(settings)) = off
      /\ CopperOffset(settings.minCopperCopperClearance,
                      MaxArcTolerance(settings)) >= 0
      /\ MessagesCC = IntersectionMsgs(
                        CopperItems(board, off, mIgnorePlanes, iterOrder))

\* the clearance is smaller than the arc tolerance, their difference is odd,
\* and two objects that cover the same place are reported
C18_Witness ==
  /\ AfterCC
  /\ settings.minCopperCopperClearance = 1
  /\ settings.maxArcTolerance = 2
  /\ Len(MessagesCC) > 0

\* the setting that governs a check procedure
GoverningSetting ==
  [checkMinimumCopperWidth |-> "minCopperWidth",
   checkCopperCopperClearances |-> "minCopperCopperClearance",
   checkCopperBoardClearances |-> "minCopperBoardClearance",
   checkCopperHoleClearances |-> "minCopperNpthClearance",
   checkMinimumPthAnnularRing |-> "minPthAnnularRing",
   checkMinimumNpthDrillDiameter |-> "minNpthDrillDiameter",
   checkMinimumNpthSlotWidth |-> "minNpthSlotWidth",
   checkMinimumPthDrillDiameter |-> "minPthDrillDiameter",
   checkMinimumPthSlotWidth |-> "minPthSlotWidth",
   checkAllowedNpthSlots |-> "allowedNpthSlots",
   checkAllowedPthSlots |-> "allowedPthSlots"]

\* the check procedure has a governing setting and it is disabled: 0 for a
\* threshold, Any for an allowed-slots policy
Disabled(name, s) ==
  /\ name \in DOMAIN GoverningSetting
  /\ IF GoverningSetting[name] \in NumericSettings
       THEN s[GoverningSetting[name]] = 0
       ELSE s[GoverningSetting[name]] = "Any"

\* C19: a check whose governing setting is disabled emits no message and no
\* status string and leaves the progress percentage and the message list
\* unchanged, on every board.
C19_DisabledIsSkipped ==
  [][(/\ Len(called') = Len(called) + 1
      /\ Disabled(called'[Len(called')], settings)) =>
       /\ observer' = observer
       /\ mMessages' = mMessages
       /\ mProgressStatus' = mProgressStatus
       /\ mProgressPercent' = mProgressPercent]_vars

\* a run with messages has passed checkAllowedNpthSlots with the policy Any
C19_Witness ==
  /\ pc > 0
  /\ called[Len(called)] = "checkAllowedNpthSlots"
  /\ settings.allowedNpthSlots = "Any"
  /\ mMessages # <<>>

-----------------------------------------------------------------------------
(* Properties of the minimum drill diameter and slot width checks *)

\* the holes of the board as the messages name them, with their thresholds:
\* board holes and package holes (NPTH), pad holes (PTH)
HolesChecked ==
  {[ref |-> <<board.holes[i].id>>, hole |-> board.holes[i],
    minDiameter |-> settings.minNpthDrillDiameter,
    minWidth |-> settings.minNpthSlotWidth] : i \in 1..Len(board.holes)}
  \cup UNION {
    {[ref |-> <<board.devices[k].id, board.devices[k].holes[i].id>>,
      hole |-> board.devices[k].holes[i],
      minDiameter |-> settings.minNpthDrillDiameter,
      minWidth |-> settings.minNpthSlotWidth] :
       i \in 1..Len(board.devices[k].holes)}
    \cup UNION {
      {[ref |-> <<board.devices[k].pads[p].id, board.devices[k].pads[p].holes[i].id>>,
        hole |-> board.devices[k].pads[p].holes[i],
        minDiameter |-> settings.minPthDrillDiameter,
        minWidth |-> settings.minPthSlotWidth] :
         i \in 1..Len(board.devices[k].pads[p].holes)} :
      p \in 1..Len(board.devices[k].pads)} :
    k \in 1..Len(board.devices)}

\* a message of the kind names the hole
Reported(kind, ref) ==
  \E i \in 1..Len(mMessages) :
    mMessages[i].kind = kind /\ mMessages[i].objs = <<ref>>

\* C20: once the four minimum drill and slot checks have run, a hole has a
\* MinimumDrillDiameterViolation iff it is round and its diameter is below
\* the drill threshold, and a MinimumSlotWidthViolation iff it is a slot and
\* its width is below the slot threshold.
C20_DrillOrSlot ==
  (pc > 0 /\ called[Len(called)] = "checkMinimumPthSlotWidth") =>
    \A h \in HolesChecked :
      /\ Reported("MinimumDrillDiameterViolation", h.ref)
           <=> (~IsSlot(h.hole) /\ h.hole.diameter < h.minDiameter)
      /\ Reported("MinimumSlotWidthViolation", h.ref)
           <=> (IsSlot(h.hole) /\ h.hole.diameter < h.minWidth)

-----------------------------------------------------------------------------
(* Properties of the allowed slots checks *)

\* the class of a hole: round 0, single-segment straight slot 1,
\* multi-segment straight slot 2, curved slot 3
HoleClass(h) ==
  IF h.curved THEN 3 ELSE IF h.vertices > 2 THEN 2 ELSE IF h.vertices > 1 THEN 1 ELSE 0

\* the rank of a policy: None 0 ... Any 3
PolicyRank ==
  [None |-> 0, SingleSegmentStraight |-> 1, MultiSegmentStraight |-> 2, Any |-> 3]

\* the holes of the board as the messages name them, each with the policy
\* that applies to it
HolesWithPolicy(npth, pth) ==
  {[ref |-> h.ref, hole |-> h.hole,
    allowed |-> IF h.ref[Len(h.ref)] = "hole" THEN pth ELSE npth] :
     h \in HolesChecked}

\* the holes reported under the two policies
ForbiddenUnder(npth, pth) ==
  {m.objs : m \in Range(AllowedNpthSlotMsgs(board, npth))
                  \cup Range(AllowedPthSlotMsgs(board, pth))}

\* C21: once both allowed slots checks have run, a hole has a ForbiddenSlot
\* iff its class exceeds the policy that applies to it (allowed_npth_slots
\* for board and package holes, allowed_pth_slots for pad holes); a round
\* hole has none, and under a higher policy no hole is reported that is not
\* reported under the policy of the run.
C21_ForbiddenSlot ==
  (pc > 0 /\ called[Len(called)] = "checkAllowedPthSlots") =>
    /\ \A h \in HolesWithPolicy(settings.allowedNpthSlots, settings.allowedPthSlots) :
         /\ Reported("ForbiddenSlot", h.ref)
              <=> HoleClass(h.hole) > PolicyRank[h.allowed]
         /\ HoleClass(h.hole) = 0 => ~Reported("ForbiddenSlot", h.ref)
    /\ \A a \in AllowedSlots : \A p \in AllowedSlots :
         (/\ PolicyRank[a] >= PolicyRank[settings.allowedNpthSlots]
          /\ PolicyRank[p] >= PolicyRank[settings.allowedPthSlots]) =>
           \A objs \in ForbiddenUnder(a, p) :
             \E i \in 1..Len(mMessages) :
               mMessages[i].kind = "ForbiddenSlot" /\ mMessages[i].objs = objs

\* a curved board slot is reported under MultiSegmentStraight while a
\* two-segment pad slot is allowed by the same policy
C21_Witness ==
  /\ pc > 0
  /\ called[Len(called)] = "checkAllowedPthSlots"
  /\ settings.allowedNpthSlots = "MultiSegmentStraight"
  /\ settings.allowedPthSlots = "MultiSegmentStraight"
  /\ HoleClass(board.holes[1]) = 3
  /\ HoleClass(board.devices[1].pads[1].holes[1]) = 2
  /\ Reported("ForbiddenSlot", <<"hole1">>)
  /\ ~Reported("ForbiddenSlot", <<"pad1", "hole">>)

-----------------------------------------------------------------------------
(* Properties of the annular ring check *)

\* T: what is copper on every enabled copper layer of the board, planes
\* included
CopperOnAllLayers ==
  {k \in CopperArea(board, CopperLayerSeq[1], {}, FALSE) :
     \A i \in 1..Len(CopperLayerSeq) :
       k \in CopperArea(board, CopperLayerSeq[i], {}, FALSE)}

\* C22: in a full run with min_pth_annular_ring = a > 0, a via has a
\* MinimumAnnularRingViolation iff the disc of diameter drill + 2a - 1
\* around it is not covered by T, a pad has one iff the same area around
\* its holes is not covered by T, and a pad without holes has none.
C22_AnnularRing ==
  (/\ pc > 0
   /\ ~quick
   /\ called[Len(called)] = "checkMinimumPthAnnularRing"
   /\ settings.minPthAnnularRing > 0) =>
    \A T \in {CopperOnAllLayers} :
      /\ \A s \in 1..Len(board.netSegments) :
           \A v \in 1..Len(board.netSegments[s].vias) :
             \A via \in {board.netSegments[s].vias[v]} :
               Reported("MinimumAnnularRingViolation", <<via.id>>)
                 <=> ~(Disc(via.pos, via.drill + 2 * settings.minPthAnnularRing - 1)
                         \subseteq T)
      /\ \A k \in 1..Len(board.devices) :
           \A p \in 1..Len(board.devices[k].pads) :
             \A pad \in {board.devices[k].pads[p]} :
               Reported("MinimumAnnularRingViolation", <<pad.id>>)
                 <=> \E i \in 1..Len(pad.holes) :
                       ~(Obround(PadMapPos(board.devices[k], pad, pad.holes[i].p1),
                                 PadMapPos(board.devices[k], pad, pad.holes[i].p2),
                                 pad.holes[i].diameter
                                   + 2 * settings.minPthAnnularRing - 1)
                           \subseteq T)

-----------------------------------------------------------------------------
(* Properties of the widths the checks build *)

\* the non-plated holes of the board: board holes and package holes
NpthHoles ==
  {h.hole : h \in {x \in HolesChecked : x.ref[Len(x.ref)] # "hole"}}

-----------------------------------------------------------------------------
(* Properties of the courtyard check *)

\* the courtyard of a device on a layer at the device's place on the board:
\* its polygons, and a disc for each circle centred at the circle's centre
\* mapped through the device transform
CourtyardOnBoard(dev, layer) ==
  UnionAll([i \in 1..Len(dev.polygons) |->
    IF MapLayer(dev, dev.polygons[i].layer) = layer
    THEN DevPolygonArea(dev, dev.polygons[i]) ELSE {}])
  \cup UnionAll([i \in 1..Len(dev.circles) |->
    IF MapLayer(dev, dev.circles[i].layer) = layer
    THEN DevCircleArea(dev, dev.circles[i], 0) ELSE {}])

\* C24: once the courtyard check has run, two devices have a
\* CourtyardOverlap iff their courtyards, circles included, overlap on the
\* same side at the devices' places on the board.
C24_CourtyardOverlap ==
  (pc > 0 /\ called[Len(called)] = "checkCourtyardClearances") =>
    \A i \in 1..Len(board.devices) : \A k \in (i + 1)..Len(board.devices) :
      (\E j \in 1..Len(mMessages) :
         /\ mMessages[j].kind = "CourtyardOverlap"
         /\ {mMessages[j].objs[1], mMessages[j].objs[2]}
              = {<<board.devices[i].id>>, <<board.devices[k].id>>})
      <=> \E layer \in {"top_courtyard", "bot_courtyard"} :
            Intersect(CourtyardOnBoard(board.devices[i], layer),
                      CourtyardOnBoard(board.devices[k], layer)) # {}

-----------------------------------------------------------------------------
(* Properties of the hand-over to the host *)

\* the places of the log where the host's event loop has run
HandOvers == {i \in 1..Len(observer) : observer[i].type = "processEvents"}

\* C25: during a run the host's event loop runs only at a progress
\* emission: every hand-over directly follows the emission of a status
\* string, there is exactly one per status string, and none follows the
\* emission of a message.
C25_HandOverAtProgress ==
  /\ \A i \in HandOvers : i > 1 /\ observer[i - 1].type = "progressStatus"
  /\ Cardinality(HandOvers) = Len(StatusTexts)
  /\ \A i \in HandOvers : observer[i - 1].type # "progressMessage"

\* messages have been emitted inside a check and the host's event loop has
\* run again after them
C25_Witness ==
  \E i \in 1..Len(observer) : \E k \in HandOvers :
    /\ observer[i].type = "progressMessage"
    /\ i < k
    /\ pc > 0

-----------------------------------------------------------------------------
(* Properties of the minimum copper width check *)

\* the objects the minimum copper width check looks at: board stroke texts,
\* net lines, planes and device stroke texts, each with its width
WidthObjects ==
  {[kind |-> "text", id |-> board.strokeTexts[i].id,
    layer |-> board.strokeTexts[i].layer, width |-> board.strokeTexts[i].strokeWidth,
    p1 |-> board.strokeTexts[i].p1, p2 |-> board.strokeTexts[i].p2] :
     i \in 1..Len(board.strokeTexts)}
  \cup UNION {
    {[kind |-> "line", id |-> board.netSegments[k].netLines[i].id,
      layer |-> board.netSegments[k].netLines[i].layer,
      width |-> board.netSegments[k].netLines[i].width,
      p1 |-> board.netSegments[k].netLines[i].p1,
      p2 |-> board.netSegments[k].netLines[i].p2] :
       i \in 1..Len(board.netSegments[k].netLines)} :
    k \in 1..Len(board.netSegments)}
  \cup {[kind |-> "plane", id |-> board.planes[i].id, layer |-> board.planes[i].layer,
         width |-> board.planes[i].minWidth,
         p1 |-> board.planes[i].p1, p2 |-> board.planes[i].p2] :
          i \in 1..Len(board.planes)}
  \cup UNION {
    {[kind |-> "text", id |-> board.devices[k].strokeTexts[i].id,
      layer |-> board.devices[k].strokeTexts[i].layer,
      width |-> board.devices[k].strokeTexts[i].strokeWidth,
      p1 |-> board.devices[k].strokeTexts[i].p1,
      p2 |-> board.devices[k].strokeTexts[i].p2] :
       i \in 1..Len(board.devices[k].strokeTexts)} :
    k \in 1..Len(board.devices)}

\* the locations of the MinimumWidthViolation messages that name the object
WidthLocations(o) ==
  {mMessages[i].locations : i \in {j \in 1..Len(mMessages) :
     mMessages[j].kind = "MinimumWidthViolation" /\ mMessages[j].objs = <<<<o.id>>>>}}

AfterWidth ==
  /\ pc > 0
  /\ called[Len(called)] = "checkMinimumCopperWidth"
  /\ settings.minCopperWidth > 0

\* C26 as stated: a stroke text on an enabled copper layer, a net line and a
\* plane has a MinimumWidthViolation iff its width is below min_copper_width,
\* and the location of each violation is the object's outline stroked at
\* max(width, 50000).
C26_WidthAndLocation ==
  AfterWidth =>
    \A o \in WidthObjects :
      IF (o.kind \in {"line", "plane"} \/ IsEnabledCopperName(o.layer))
         /\ o.width < settings.minCopperWidth
      THEN WidthLocations(o) = {StrokeOutline(o.p1, o.p2, Max(o.width, 50000))}
      ELSE WidthLocations(o) = {}

\* C26, amended: a stroke text, net line or plane on an enabled copper
\* layer has a MinimumWidthViolation iff its width is below
\* min_copper_width (an equal width does not violate); the location is the
\* outline stroked at max(width, 50000) for a stroke text, the obround of
\* the line's own width for a net line, and the outline stroked at 200000
\* for a plane.
C26_WidthViolations ==
  AfterWidth =>
    \A o \in WidthObjects :
      IF IsEnabledCopperName(o.layer) /\ o.width < settings.minCopperWidth
      THEN WidthLocations(o) =
             {StrokeOutline(o.p1, o.p2,
                CASE o.kind = "text" -> Max(o.width, 50000)
                  [] o.kind = "line" -> o.width
                  [] o.kind = "plane" -> 200000)}
      ELSE WidthLocations(o) = {}

\* the net line and the device stroke text are below the minimum and
\* reported, the plane is at the minimum and not reported
C26_Witness ==
  /\ AfterWidth
  /\ settings.minCopperWidth = 2
  /\ \E o \in WidthObjects : o.id = "line1" /\ o.width = 1 /\ WidthLocations(o) # {}
  /\ \E o \in WidthObjects : o.id = "dtext1" /\ o.width = 1 /\ WidthLocations(o) # {}
  /\ \E o \in WidthObjects : o.id = "plane1" /\ o.width = 2 /\ WidthLocations(o) = {}

-----------------------------------------------------------------------------
(* Properties of the copper to non-plated hole clearance check *)

\* the copper of all enabled copper layers, as the board has it in this run
CopperOfAnyLayer ==
  UNION {CopperArea(board, CopperLayerSeq[i], {}, quick) :
           i \in 1..Len(CopperLayerSeq)}

\* the hole's path stroked at diameter + 2 * clearance - 2 meets the copper
HoleTooClose(p1, p2, diameter) ==
  Obround(p1, p2, diameter + 2 * settings.minCopperNpthClearance - 2)
    \cap CopperOfAnyLayer # {}

\* C27: once the hole clearance check has run with min_copper_npth_clearance
\* = c > 0, a non-plated hole of the board or of a package has a
\* CopperHoleClearanceViolation iff its path stroked at diameter + 2c - 2,
\* whatever max_arc_tolerance is, intersects the copper of all enabled
\* copper layers.
C27_CopperHoleClearance ==
  (/\ pc > 0
   /\ called[Len(called)] = "checkCopperHoleClearances"
   /\ settings.minCopperNpthClearance > 0) =>
    /\ \A i \in 1..Len(board.holes) :
         \A h \in {board.holes[i]} :
           Reported("CopperHoleClearanceViolation", <<h.id>>)
             <=> HoleTooClose(h.p1, h.p2, h.diameter)
    /\ \A k \in 1..Len(board.devices) :
         \A i \in 1..Len(board.devices[k].holes) :
           \A h \in {board.devices[k].holes[i]} :
             Reported("CopperHoleClearanceViolation", <<board.devices[k].id, h.id>>)
               <=> HoleTooClose(MapPos(board.devices[k], h.p1),
                                MapPos(board.devices[k], h.p2), h.diameter)

-----------------------------------------------------------------------------
(* Properties of repeated runs *)

\* the messages execute(quick) emits as the first run of a check newly
\* constructed for the board
FirstRunMessages ==
  Execute(Fresh(board), settings, quick, iterOrder).messages

\* C28: the messages of a finished run are those of a first run with the
\* same quick flag on the same board and settings, whatever runs came
\* before it.
C28_RunsIndependent ==
  RunFinished => mMessages = FirstRunMessages

-----------------------------------------------------------------------------
(* Properties of the device and its stroke texts *)

\* C29: as long as no stroke text that was already on the board has been
\* handed to addStrokeText, after every call of addToBoard, removeFromBoard,
\* addStrokeText and removeStrokeText, failed or not, every pad and every
\* stroke text the device holds is added to the board iff the device is,
\* and no two stroke texts of the device have the same UUID.
C29_DeviceConsistent ==
  ~mDevice.handedAdded =>
    /\ \A i \in 1..mDevice.mPads : mDevice.padAdded[i] = mDevice.mIsAddedToBoard
    /\ \A i \in 1..mDevice.mStrokeTexts :
         mDevice.textAdded[i] = mDevice.mIsAddedToBoard
    /\ \A i, j \in 1..mDevice.mStrokeTexts :
         UuidOf(mDevice.textObjs[i]) = UuidOf(mDevice.textObjs[j]) => i = j

\* a further stroke text was handed to a device that is added to the board
\* and holds a pad and MaxTexts + 1 stroke texts now
C29_Witness ==
  /\ ~mDevice.handedAdded
  /\ mDevice.op = "addStrokeText"
  /\ mDevice.result = "ok"
  /\ mDevice.mIsAddedToBoard
  /\ mDevice.mPads = 1
  /\ mDevice.mStrokeTexts = MaxTexts + 1

-----------------------------------------------------------------------------
(* Properties of the project's lists *)

\* no object is in both lists, none is twice in the active list, and no two
\* objects of the active list have the same UUID, name or directory name
ListsConsistent(active, removed) ==
  /\ Range(active) \cap Range(removed) = {}
  /\ \A i, j \in 1..Len(active) :
       (\/ active[i] = active[j]
        \/ ItemAttrs(active[i]).uuid = ItemAttrs(active[j]).uuid
        \/ ItemAttrs(active[i]).name = ItemAttrs(active[j]).name
        \/ ItemAttrs(active[i]).dir = ItemAttrs(active[j]).dir) => i = j

\* the four lists of the project
ProjectLists(p) ==
  <<p.mBoards, p.mRemovedBoards, p.mSchematics, p.mRemovedSchematics>>

====
